---- MODULE Spec2Model ----
(***************************************************************************)
(* KSZ8851SNL SPI Ethernet controller driver (src/src/driver.rs) together  *)
(* with the register table of src/src/device.rs.                           *)
(*                                                                         *)
(* The driver is a single thread of control: every `.await` on the bus is  *)
(* one step of the model, so that a bus failure can hit any transaction    *)
(* and the chip can change state between two transactions of one call.     *)
(* A step that ends in `?` returns Err(SpiError) on a bus failure; a step  *)
(* that ends in `.unwrap()` or an `assert!` aborts the program (panic).    *)
(***************************************************************************)
EXTENDS Integers, Sequences, FiniteSets, TLC

(***************************************************************************)
(* Bit-field arithmetic on 16-bit register values.                         *)
(***************************************************************************)
Bit(v, n) == (v \div (2 ^ n)) % 2

Field(v, lo, w) == (v \div (2 ^ lo)) % (2 ^ w)

WithField(v, lo, w, x) == v - Field(v, lo, w) * (2 ^ lo) + (x % (2 ^ w)) * (2 ^ lo)

WithBit(v, n, b) == WithField(v, n, 1, IF b THEN 1 ELSE 0)

\* The bits of v selected by the bit numbers in S, as a 16-bit value.
RECURSIVE MaskOf(_)
MaskOf(S) == IF S = {} THEN 0 ELSE LET n == CHOOSE k \in S : TRUE IN (2 ^ n) + MaskOf(S \ {n})

\* v with the bits in `set` forced to 1 and the bits in `clr` forced to 0.
RECURSIVE SetClr(_, _, _)
SetClr(v, set, clr) ==
    IF set # {} THEN LET n == CHOOSE k \in set : TRUE IN SetClr(WithBit(v, n, TRUE), set \ {n}, clr)
    ELSE IF clr # {} THEN LET n == CHOOSE k \in clr : TRUE IN SetClr(WithBit(v, n, FALSE), set, clr \ {n})
    ELSE v

(***************************************************************************)
(* Command header (driver.rs reg_cmd) and opcodes.                         *)
(***************************************************************************)
OpRegRead == 0
OpRegWrite == 1
OpRXRead == 2
OpTXWrite == 3

\* unimplemented!(): no header is produced, the program aborts.
Unimplemented == <<>>

\* A header whose byte enables belong to the other half of the 32-bit word.
reg_cmd_other_half(o, addr, count) ==
    LET hdr(byte_enable) == << (o * 64) + (byte_enable * 4) + (addr \div 64),
                               ((addr \div 4) % 16) * 16 >>
    IN  IF (addr % 4 = 0) /\ (count = 2) THEN hdr(12)
        ELSE IF (addr % 4 = 2) /\ (count = 2) THEN hdr(3)
        ELSE Unimplemented

\* A header whose second byte carries the address bits without the shift.
reg_cmd_unshifted(o, addr, count) ==
    LET hdr(byte_enable) == << (o * 64) + (byte_enable * 4) + (addr \div 64),
                               (addr \div 4) % 16 >>
    IN  IF (addr % 4 = 0) /\ (count = 2) THEN hdr(3)
        ELSE IF (addr % 4 = 2) /\ (count = 2) THEN hdr(12)
        ELSE Unimplemented

reg_cmd(o, addr, count) ==
    LET hdr(byte_enable) == << (o * 64) + (byte_enable * 4) + (addr \div 64),
                               ((addr \div 4) % 16) * 16 >>
    IN  IF (addr % 4 = 0) /\ (count = 2) THEN hdr(3)
        ELSE IF (addr % 4 = 2) /\ (count = 2) THEN hdr(12)
        ELSE Unimplemented

(***************************************************************************)
(* Register table: addresses (device.rs) of the registers the driver uses. *)
(***************************************************************************)
RegNames == {"MARL", "MARM", "MARH", "MBIR", "GRR", "TXCR", "RXCR1", "RXCR2", "TXMIR",
             "RXFHSR", "RXFHBCR", "TXQCR", "RXQCR", "TXFDPR", "RXFDPR", "IER", "RXFCTR",
             "TXNTFSR", "CIDER"}

Addr(r) ==
    CASE r = "MARL" -> 16   [] r = "MARM" -> 18    [] r = "MARH" -> 20
      [] r = "MBIR" -> 36   [] r = "GRR" -> 38     [] r = "TXCR" -> 112
      [] r = "RXCR1" -> 116 [] r = "RXCR2" -> 118  [] r = "TXMIR" -> 120
      [] r = "RXFHSR" -> 124 [] r = "RXFHBCR" -> 126 [] r = "TXQCR" -> 128
      [] r = "RXQCR" -> 130 [] r = "TXFDPR" -> 132 [] r = "RXFDPR" -> 134
      [] r = "IER" -> 144   [] r = "RXFCTR" -> 156 [] r = "TXNTFSR" -> 158
      [] r = "CIDER" -> 192

\* REGISTER_SIZE in bytes: every register is 16 bits wide.
RegSize == 2

\* Registers the chip owns: a host write does not change them.
ReadOnlyRegs == {"MBIR", "TXMIR", "RXFHSR", "RXFHBCR", "CIDER"}

\* Bit positions (device.rs).
GRR_GSR == 0
IER_LCIE == 15
IER_TXIE == 14
IER_RXIE == 13
IER_RXOIE == 11
IER_TXSAIE == 6
IER_SPIBEIE == 1
TXQCR_AETFE == 2
TXQCR_TXQMAM == 1
TXQCR_METFE == 0
RXQCR_RXIPHTOE == 9
RXQCR_RXFCTE == 5
RXQCR_ADRFE == 4
RXQCR_SDA == 3
RXQCR_RRXEF == 0
TXCR_TXE == 0
RXCR1_RXE == 0
MBIR_TXMBFA == 11
MBIR_RXMBFA == 3
RXFHSR_RXFV == 15
PAI == 14

\* Bits of RXFHSR that carry a field; read_all() compares exactly these.
RXFHSR_Fields == {15, 13, 12, 11, 10, 7, 6, 5, 4, 3, 2, 1, 0}

\* An error test that leaves out the ICMP checksum flag.
ErrorBitsWithoutIcmp == {0, 1, 2, 4, 10, 11, 12}

\* crc_error, runt_frame, frame_too_long, mii_error and the four checksum flags.
RXFHSR_ErrorBits == {0, 1, 2, 4, 10, 11, 12, 13}

CHIP_ID_FAMILY == 136
CHIP_ID_CHIP == 7

\* Largest payload ready_tx accepts.
TX_MAX == 2000

(***************************************************************************)
(* Bounds of the model.                                                    *)
(***************************************************************************)
\* Bus transactions that may fail in one behaviour.
MaxFaults == 1
\* Longest tx payload of the call-sequence specifications.
MaxLen == 4
\* tx calls in one behaviour of the frame-id specification.
MaxTx == 34
\* API calls in one behaviour of the other call-sequence specifications.
MaxCalls == 2

(***************************************************************************)
(* Inputs.                                                                 *)
(***************************************************************************)
\* A payload of n bytes; byte i is (17 * i) mod 256, so no two positions of a short
\* payload agree and no byte is the zero of the padding.
Payload(n) == [i \in 1..n |-> (17 * i) % 256]

Payloads == {Payload(n) : n \in 0..MaxLen}

\* Lengths asked of ready_tx: around 0 and around the maximum.
TxLens == {0, 1, TX_MAX, TX_MAX + 1, 65537}

\* TXQ free space the chip reports in TXMIR.
TxSpaces == {4, TX_MAX + 3, TX_MAX + 4}

\* Interrupt masks a host may have programmed through the public `dev` handle.
HostMasks == {0, 2 ^ IER_RXIE, MaskOf({IER_TXIE, IER_TXSAIE, IER_SPIBEIE}),
              MaskOf({15, 14, 13, 11, 9, 8, 6, 5, 4, 3, 2, 1, 0})}

\* How a bus transaction ends: "ok" or the ErrorKind of the transport's error.
BusOutcomes == {"ok", "Overrun", "Other"}

(***************************************************************************)
(* The chip behind the bus.                                                *)
(***************************************************************************)
\* CIDER of a KSZ8851SNL rev 1, of a chip of another family, of another chip type.
CiderGood == (CHIP_ID_FAMILY * 256) + (CHIP_ID_CHIP * 16) + 2

ChipVariants ==
    [cider : {CiderGood, (135 * 256) + (CHIP_ID_CHIP * 16) + 2, (CHIP_ID_FAMILY * 256) + (6 * 16) + 2},
     mbir  : {MaskOf({12, 4}), MaskOf({12, 4, MBIR_TXMBFA}), MaskOf({12, 4, MBIR_RXMBFA}),
              MaskOf({12, 4, MBIR_TXMBFA, MBIR_RXMBFA})},
     reset : BOOLEAN]

GoodChips == {c \in ChipVariants : c.cider = CiderGood /\ c.mbir = MaskOf({12, 4})}

\* Register values after power-on and after a global soft reset.
ResetDefaults(c) ==
    [r \in RegNames |->
        CASE r = "CIDER" -> c.cider
          [] r = "MBIR" -> c.mbir
          [] r = "TXMIR" -> 6144
          [] OTHER -> 0]

\* The register file after the host wrote v to register r.  GRR with the global soft
\* reset bit puts every register back to its default; a chip whose `reset` is FALSE is
\* a plain register file (a simulated chip that implements no reset).
\* A chip on which the global soft reset restores nothing.
ChipWriteKeepsAll(rg, c, r, v) ==
    IF r \in ReadOnlyRegs THEN rg ELSE [rg EXCEPT ![r] = v]

ChipWrite(rg, c, r, v) ==
    IF r \in ReadOnlyRegs THEN rg
    ELSE IF (r = "GRR") /\ (Bit(v, GRR_GSR) = 1) /\ c.reset
         THEN [ResetDefaults(c) EXCEPT !["GRR"] = v]
    ELSE [rg EXCEPT ![r] = v]

(***************************************************************************)
(* State.                                                                  *)
(***************************************************************************)
VARIABLES
    regs,           \* the chip's register file
    chip,           \* which chip is behind the bus (never changes)
    next_frame_id,  \* Chip.next_frame_id
    pc,             \* position of the running call: "idle", a step, "done", "aborted"
    loc,            \* arguments and locals of the running call
    ret,            \* what the call returned (or that it panicked)
    bus,            \* bus transactions and delays of the running call, in order
    entry,          \* chip registers and frame id when the running call began
    faults,         \* bus failures so far
    fuel,           \* API calls the caller may still start
    txDone,         \* successful streaming writes of tx so far
    last,           \* the call that returned last, until the host touches the chip
    mac             \* the address the MAC registers hold from the last successful set_mac;
                    \* <<>> once anything else has written them, or reset the chip

vars == <<regs, chip, next_frame_id, pc, loc, ret, bus, entry, faults, fuel, txDone, last,
          mac>>

NoLoc == [len |-> 0, buf |-> <<>>, rx_buf |-> <<>>, ier |-> 0, tmp |-> 0,
          frame_status |-> 0, byte_count |-> 0, i |-> 0]

NoRet == [op |-> "none", kind |-> "none", val |-> 0, info |-> <<>>, spi |-> "none"]

NoLast == [op |-> "none", kind |-> "none"]

NoEntry == [regs |-> [r \in RegNames |-> 0], next_frame_id |-> 0]

Ev(t, r, v, d, out) == [t |-> t, reg |-> r, val |-> v, data |-> d, out |-> out]

\* Chip::new: the frame id starts at 0; the chip is in its power-on state.
InitWith(chips, n) ==
    /\ chip \in chips
    /\ regs = ResetDefaults(chip)
    /\ next_frame_id = 0
    /\ pc = "idle"
    /\ loc = NoLoc
    /\ ret = NoRet
    /\ bus = <<>>
    /\ entry = NoEntry
    /\ faults = 0
    /\ fuel = n
    /\ txDone = 0
    /\ last = NoLast
    /\ mac = <<>>

(***************************************************************************)
(* Steps shared by all calls.                                              *)
(***************************************************************************)
Begin(first, l) ==
    /\ pc = "idle"
    /\ fuel > 0
    /\ fuel' = fuel - 1
    /\ pc' = first
    /\ loc' = l
    /\ bus' = <<>>
    /\ entry' = [regs |-> regs, next_frame_id |-> next_frame_id]
    /\ mac' = IF first \in {"set_mac_marh", "init_reset"} THEN <<>> ELSE mac
    /\ UNCHANGED <<regs, chip, next_frame_id, ret, faults, txDone, last>>

Finish(op, kind, val, info, spi) ==
    /\ pc' = "done"
    /\ ret' = [op |-> op, kind |-> kind, val |-> val, info |-> info, spi |-> spi]

\* A panic: unwrap() on an Err, a failed assert!, an out-of-range slice.
Abort(op) ==
    /\ pc' = "aborted"
    /\ ret' = [op |-> op, kind |-> "panic", val |-> 0, info |-> <<>>, spi |-> "none"]

\* impl From<SE> for Error: `?` returns SpiError(kind); unwrap() panics.
OnBusError(op, mode, out) ==
    IF mode = "try" THEN Finish(op, "SpiError", 0, <<>>, out) ELSE Abort(op)

Fault(out) ==
    /\ (out = "ok") \/ (faults < MaxFaults)
    /\ faults' = IF out = "ok" THEN faults ELSE faults + 1

\* KSZ8851Codec::read_register: one transaction, header write then data read.
\* `got` is what the caller's locals are once it holds the value read.
ReadStep(op, at, r, mode, next, got) ==
    /\ pc = at
    /\ \E out \in BusOutcomes :
         /\ Fault(out)
         /\ bus' = Append(bus, Ev("rd", r, IF out = "ok" THEN regs[r] ELSE 0,
                                  reg_cmd(OpRegRead, Addr(r), RegSize), out))
         /\ IF out = "ok"
              THEN pc' = next /\ loc' = got /\ UNCHANGED ret
              ELSE OnBusError(op, mode, out) /\ UNCHANGED loc
    /\ UNCHANGED <<regs, chip, mac, fuel, next_frame_id, entry, txDone, last>>

\* KSZ8851Codec::write_register: one transaction, header write then data write.
\* A failed transaction leaves the register as it was.
WriteStep(op, at, r, v, mode, next) ==
    /\ pc = at
    /\ \E out \in BusOutcomes :
         /\ Fault(out)
         /\ bus' = Append(bus, Ev("wr", r, v, reg_cmd(OpRegWrite, Addr(r), RegSize), out))
         /\ IF out = "ok"
              THEN pc' = next /\ regs' = ChipWrite(regs, chip, r, v) /\ UNCHANGED ret
              ELSE OnBusError(op, mode, out) /\ UNCHANGED regs
    /\ UNCHANGED <<chip, mac, fuel, next_frame_id, loc, entry, txDone, last>>

\* The caller takes the result; the next call may begin.
Return ==
    /\ pc = "done"
    /\ pc' = "idle"
    /\ loc' = NoLoc
    /\ ret' = NoRet
    /\ bus' = <<>>
    /\ entry' = NoEntry
    /\ last' = [op |-> ret.op, kind |-> ret.kind]
    /\ UNCHANGED <<regs, chip, mac, fuel, next_frame_id, faults, txDone>>

(***************************************************************************)
(* init (driver.rs 138-285).                                               *)
(***************************************************************************)
\* self.delay.delay_ms(10)
DelayMs == 10

\* A plan that turns the receiver on before the transmitter.
InitPlanRxFirst ==
    << [reg |-> "TXFDPR", set |-> {14}, clr |-> {}, lo |-> 0, w |-> 0, x |-> 0],
       [reg |-> "TXCR", set |-> {2, 1}, clr |-> {8, 6, 5, 3}, lo |-> 0, w |-> 0, x |-> 0],
       [reg |-> "RXFDPR", set |-> {14}, clr |-> {}, lo |-> 0, w |-> 0, x |-> 0],
       [reg |-> "RXFCTR", set |-> {}, clr |-> {}, lo |-> 0, w |-> 8, x |-> 1],
       [reg |-> "RXQCR", set |-> {5, 9, 4}, clr |-> {}, lo |-> 0, w |-> 0, x |-> 0],
       [reg |-> "RXCR1", set |-> {10, 7, 5}, clr |-> {14, 13, 12}, lo |-> 0, w |-> 0, x |-> 0],
       [reg |-> "RXCR2", set |-> {4, 3, 2, 1}, clr |-> {}, lo |-> 5, w |-> 3, x |-> 4],
       [reg |-> "IER", set |-> {15, 6, 14, 13, 11, 1}, clr |-> {}, lo |-> 0, w |-> 0, x |-> 0],
       [reg |-> "TXQCR", set |-> {}, clr |-> {2}, lo |-> 0, w |-> 0, x |-> 0],
       [reg |-> "RXCR1", set |-> {0}, clr |-> {}, lo |-> 0, w |-> 0, x |-> 0],
       [reg |-> "TXCR", set |-> {0}, clr |-> {}, lo |-> 0, w |-> 0, x |-> 0] >>

\* The read-modify-write steps that follow the self-test check, in program order:
\* the register, the bits forced to 1, the bits forced to 0, and a multi-bit field
\* (lowest bit, width, value; width 0 for none).
InitPlan ==
    << [reg |-> "TXFDPR", set |-> {PAI}, clr |-> {}, lo |-> 0, w |-> 0, x |-> 0],
       [reg |-> "TXCR", set |-> {2, 1}, clr |-> {8, 6, 5, 3}, lo |-> 0, w |-> 0, x |-> 0],
       [reg |-> "RXFDPR", set |-> {PAI}, clr |-> {}, lo |-> 0, w |-> 0, x |-> 0],
       [reg |-> "RXFCTR", set |-> {}, clr |-> {}, lo |-> 0, w |-> 8, x |-> 1],
       [reg |-> "RXQCR", set |-> {RXQCR_RXFCTE, RXQCR_RXIPHTOE, RXQCR_ADRFE}, clr |-> {},
        lo |-> 0, w |-> 0, x |-> 0],
       [reg |-> "RXCR1", set |-> {10, 7, 5}, clr |-> {14, 13, 12}, lo |-> 0, w |-> 0, x |-> 0],
       [reg |-> "RXCR2", set |-> {4, 3, 2, 1}, clr |-> {}, lo |-> 5, w |-> 3, x |-> 4],
       [reg |-> "IER", set |-> {IER_LCIE, IER_TXSAIE, IER_TXIE, IER_RXIE, IER_RXOIE, IER_SPIBEIE},
        clr |-> {}, lo |-> 0, w |-> 0, x |-> 0],
       [reg |-> "TXQCR", set |-> {}, clr |-> {TXQCR_AETFE}, lo |-> 0, w |-> 0, x |-> 0],
       [reg |-> "TXCR", set |-> {TXCR_TXE}, clr |-> {}, lo |-> 0, w |-> 0, x |-> 0],
       [reg |-> "RXCR1", set |-> {RXCR1_RXE}, clr |-> {}, lo |-> 0, w |-> 0, x |-> 0] >>

\* A step that flips the bits it should force to 1.
RECURSIVE Toggle(_, _)
Toggle(v, S) ==
    IF S = {} THEN v
    ELSE LET n == CHOOSE k \in S : TRUE IN Toggle(WithBit(v, n, Bit(v, n) = 0), S \ {n})

ApplyCfgToggling(e, v) == WithField(SetClr(Toggle(v, e.set), {}, e.clr), e.lo, e.w, e.x)

\* The value a plan step writes back, given the value it read: the chain of with_*.
ApplyCfg(e, v) == WithField(SetClr(v, e.set, e.clr), e.lo, e.w, e.x)

Call_init == Begin("init_reset", NoLoc)

\* write GRR with global_soft_reset, then delay_ms(10)
Init_Reset ==
    WriteStep("init", "init_reset", "GRR", WithBit(0, GRR_GSR, TRUE), "try", "init_delay1")

Init_Delay1 ==
    /\ pc = "init_delay1"
    /\ pc' = "init_release"
    /\ bus' = Append(bus, Ev("delay", "", DelayMs, <<>>, "ok"))
    /\ UNCHANGED <<regs, chip, mac, fuel, next_frame_id, loc, ret, entry, faults, txDone, last>>

\* write GRR zeroed, then delay_ms(10)
Init_Release ==
    WriteStep("init", "init_release", "GRR", 0, "try", "init_delay2")

\* An init that reads the identity as soon as the reset is released.
Init_NoSettle ==
    /\ pc = "init_delay2"
    /\ pc' = "init_rd_cider"
    /\ UNCHANGED <<regs, chip, mac, fuel, next_frame_id, loc, ret, bus, entry, faults, txDone, last>>

Init_Delay2 ==
    /\ pc = "init_delay2"
    /\ pc' = "init_rd_cider"
    /\ bus' = Append(bus, Ev("delay", "", DelayMs, <<>>, "ok"))
    /\ UNCHANGED <<regs, chip, mac, fuel, next_frame_id, loc, ret, entry, faults, txDone, last>>

Init_ReadCIDER ==
    ReadStep("init", "init_rd_cider", "CIDER", "try", "init_chk_id",
             [loc EXCEPT !.tmp = regs["CIDER"]])

FamilyId(v) == Field(v, 8, 8)

ChipId(v) == Field(v, 4, 4)

\* An identity check that looks at the chip type only.
BadChipTypeOnly(v) == ChipId(v) # CHIP_ID_CHIP

\* cider.read_chip_id() != CHIP_ID_CHIP || cider.read_family_id() != CHIP_ID_FAMILY
BadChipId(v) == (ChipId(v) # CHIP_ID_CHIP) \/ (FamilyId(v) # CHIP_ID_FAMILY)

Init_CheckId ==
    /\ pc = "init_chk_id"
    /\ IF BadChipId(loc.tmp)
         THEN Finish("init", "BadChipId", 0,
                     <<CHIP_ID_FAMILY, FamilyId(loc.tmp), CHIP_ID_CHIP, ChipId(loc.tmp)>>, "none")
         ELSE pc' = "init_rd_mbir" /\ UNCHANGED ret
    /\ UNCHANGED <<regs, chip, mac, fuel, next_frame_id, loc, bus, entry, faults, txDone, last>>

Init_ReadMBIR ==
    ReadStep("init", "init_rd_mbir", "MBIR", "try", "init_chk_bist",
             [loc EXCEPT !.tmp = regs["MBIR"]])

\* A self-test check that looks at the RX side only.
BistRxOnly(v) == Bit(v, MBIR_RXMBFA) = 1

\* mbir.read_rx_memory_bist_fail() || mbir.read_tx_memory_bist_fail()
BistFailed(v) == (Bit(v, MBIR_RXMBFA) = 1) \/ (Bit(v, MBIR_TXMBFA) = 1)

Init_CheckBist ==
    /\ pc = "init_chk_bist"
    /\ IF BistFailed(loc.tmp)
         THEN Finish("init", "FailedBuiltInSelfTest", 0,
                     <<Bit(loc.tmp, MBIR_RXMBFA), Bit(loc.tmp, MBIR_TXMBFA)>>, "none")
         ELSE pc' = "init_cfg_rd" /\ UNCHANGED ret
    /\ UNCHANGED <<regs, chip, mac, fuel, next_frame_id, loc, bus, entry, faults, txDone, last>>

\* read_register::<R>().await.unwrap() of plan step loc.i + 1
Init_CfgRead ==
    ReadStep("init", "init_cfg_rd", InitPlan[loc.i + 1].reg, "unwrap", "init_cfg_wr",
             [loc EXCEPT !.tmp = regs[InitPlan[loc.i + 1].reg], !.i = loc.i + 1])

\* write_register(...).await.unwrap() of plan step loc.i; Ok(()) follows the last one
Init_CfgWrite ==
    WriteStep("init", "init_cfg_wr", InitPlan[loc.i].reg, ApplyCfg(InitPlan[loc.i], loc.tmp),
              "unwrap", IF loc.i = Len(InitPlan) THEN "init_ok" ELSE "init_cfg_rd")

\* An init that starts the frame ids again at 0.
Init_OkRestartsIds ==
    /\ pc = "init_ok"
    /\ Finish("init", "ok", 0, <<>>, "none")
    /\ next_frame_id' = 0
    /\ UNCHANGED <<regs, chip, mac, fuel, loc, bus, entry, faults, txDone, last>>

Init_Ok ==
    /\ pc = "init_ok"
    /\ Finish("init", "ok", 0, <<>>, "none")
    /\ UNCHANGED <<regs, chip, mac, fuel, next_frame_id, loc, bus, entry, faults, txDone, last>>

InitSteps ==
    \/ Call_init \/ Init_Reset \/ Init_Delay1 \/ Init_Release \/ Init_Delay2 \/ Init_ReadCIDER
    \/ Init_CheckId \/ Init_ReadMBIR \/ Init_CheckBist \/ Init_CfgRead \/ Init_CfgWrite
    \/ Init_Ok

(***************************************************************************)
(* ready_tx (driver.rs 324-351).                                           *)
(***************************************************************************)
Call_ready_tx ==
    \E n \in TxLens : Begin("ready_tx_check", [NoLoc EXCEPT !.len = n])

\* tx_len > 2000
TooBigOffByOne(tx_len) == tx_len > TX_MAX + 1

TooBig(tx_len) == tx_len > TX_MAX

\* TxPacketTooBig { size, max } before any bus access.
ReadyTx_Check ==
    /\ pc = "ready_tx_check"
    /\ IF TooBig(loc.len)
         THEN Finish("ready_tx", "TxPacketTooBig", 0, <<loc.len, TX_MAX>>, "none")
         ELSE pc' = "ready_tx_txmir" /\ UNCHANGED ret
    /\ UNCHANGED <<regs, chip, mac, fuel, next_frame_id, loc, bus, entry, faults, txDone, last>>

\* TXMIR.read_txma_memory_available(): bits 12..0.
TxmaAvailable(v) == Field(v, 0, 13)

ReadyTx_ReadTXMIR ==
    ReadStep("ready_tx", "ready_tx_txmir", "TXMIR", "unwrap", "ready_tx_cmp",
             [loc EXCEPT !.tmp = TxmaAvailable(regs["TXMIR"])])

\* (tx_len + 4) > available
NoRoomOrEqual(tx_len, available) == (tx_len + 4) >= available

NoRoom(tx_len, available) == (tx_len + 4) > available

ReadyTx_Compare ==
    /\ pc = "ready_tx_cmp"
    /\ IF NoRoom(loc.len, loc.tmp)
         THEN pc' = "ready_tx_txntfsr" /\ UNCHANGED ret
         ELSE Finish("ready_tx", "ok", 1, <<>>, "none")
    /\ UNCHANGED <<regs, chip, mac, fuel, next_frame_id, loc, bus, entry, faults, txDone, last>>

\* TXNTFSR::zeroed().with_tx_next_total_frame_size((tx_len + 4) as u16)
ThresholdWithoutHeader(tx_len) == tx_len % 65536

Threshold(tx_len) == (tx_len + 4) % 65536

ReadyTx_WriteTXNTFSR ==
    WriteStep("ready_tx", "ready_tx_txntfsr", "TXNTFSR", Threshold(loc.len), "try",
              "ready_tx_txqcr")

\* A ready_tx that arms the monitor and turns auto-enqueue on.
ReadyTx_WriteAutoEnqueue ==
    WriteStep("ready_tx", "ready_tx_txqcr", "TXQCR",
              WithBit(WithBit(0, TXQCR_TXQMAM, TRUE), TXQCR_AETFE, TRUE), "try", "ready_tx_false")

\* TXQCR::zeroed().with_txq_memory_available_monitor(true), then Ok(false).
ReadyTx_WriteTXQCR ==
    WriteStep("ready_tx", "ready_tx_txqcr", "TXQCR", WithBit(0, TXQCR_TXQMAM, TRUE), "try",
              "ready_tx_false")

ReadyTx_False ==
    /\ pc = "ready_tx_false"
    /\ Finish("ready_tx", "ok", 0, <<>>, "none")
    /\ UNCHANGED <<regs, chip, mac, fuel, next_frame_id, loc, bus, entry, faults, txDone, last>>

(***************************************************************************)
(* tx (driver.rs 355-403).                                                 *)
(***************************************************************************)
\* (buf.len() as u16).to_le_bytes()
LeBytes16(n) == << (n % 65536) % 256, (n % 65536) \div 256 >>

\* TXCtrlWord (bondrewd, reverse, 2 bytes): transmit_interrupt_on_completion is the top
\* bit and frame_id the low six bits of a 16-bit word that goes out low byte first.
TXCtrlWordBytes(tic, frame_id) ==
    LET w == ((IF tic THEN 1 ELSE 0) * 32768) + (frame_id % 64)
    IN  << w % 256, w \div 256 >>

\* (4 - (len % 4)) % 4
PadLenNoOuterMod(n) == 4 - (n % 4)

PadLen(n) == (4 - (n % 4)) % 4

Zeros(n) == [i \in 1..n |-> 0]

\* The five Operation::Write parts of the streaming transaction, concatenated.
TxStream(buf, frame_id) ==
    << OpTXWrite * 64 >> \o TXCtrlWordBytes(TRUE, frame_id) \o LeBytes16(Len(buf))
       \o buf \o Zeros(PadLen(Len(buf)))

\* if next_frame_id == 0x1f { 0 } else { next_frame_id + 1 }
WrapAfter32(id) == IF id = 32 THEN 0 ELSE id + 1

NextFrameId(id) == IF id = 31 THEN 0 ELSE id + 1

Call_tx ==
    \E b \in Payloads : Begin("tx_rd_ier", [NoLoc EXCEPT !.buf = b])

\* Payload lengths up to the maximum ready_tx accepts: the short ones, those around
\* every multiple of 256, and the longest.
FrameLens ==
    (0..(MaxLen + 4)) \cup {n \in 0..TX_MAX : (n % 256) \in {255, 0, 1}}
        \cup ((TX_MAX - 3)..TX_MAX)

Call_tx_any ==
    \E n \in FrameLens : Begin("tx_rd_ier", [NoLoc EXCEPT !.buf = Payload(n)])

Tx_ReadIER ==
    ReadStep("tx", "tx_rd_ier", "IER", "unwrap", "tx_wr_ier0", [loc EXCEPT !.ier = regs["IER"]])

\* A tx that writes the mask it read straight back.
Tx_KeepIER ==
    WriteStep("tx", "tx_wr_ier0", "IER", loc.ier, "unwrap", "tx_rd_rxqcr")

Tx_ClearIER ==
    WriteStep("tx", "tx_wr_ier0", "IER", 0, "unwrap", "tx_rd_rxqcr")

Tx_ReadRXQCR ==
    ReadStep("tx", "tx_rd_rxqcr", "RXQCR", "unwrap", "tx_wr_sda1",
             [loc EXCEPT !.tmp = regs["RXQCR"]])

\* A tx that writes RXQCR back without the streaming-access bit.
Tx_SDAOmitted ==
    WriteStep("tx", "tx_wr_sda1", "RXQCR", loc.tmp, "unwrap", "tx_stream")

Tx_SetSDA ==
    WriteStep("tx", "tx_wr_sda1", "RXQCR", WithBit(loc.tmp, RXQCR_SDA, TRUE), "unwrap",
              "tx_stream")

\* A tx that advances the frame id before it looks at the outcome of the stream.
Tx_StreamCountsFirst ==
    /\ pc = "tx_stream"
    /\ \E out \in BusOutcomes :
         /\ Fault(out)
         /\ bus' = Append(bus, Ev("txs", "", 0, TxStream(loc.buf, next_frame_id), out))
         /\ next_frame_id' = NextFrameId(next_frame_id)
         /\ IF out = "ok"
              THEN /\ pc' = "tx_rd_rxqcr2"
                   /\ txDone' = txDone + 1
                   /\ UNCHANGED ret
              ELSE /\ OnBusError("tx", "try", out)
                   /\ UNCHANGED txDone
    /\ UNCHANGED <<regs, chip, mac, fuel, loc, entry, last>>

\* self.dev.interface.transaction(...).await?, then the frame-id update.
Tx_Stream ==
    /\ pc = "tx_stream"
    /\ \E out \in BusOutcomes :
         /\ Fault(out)
         /\ bus' = Append(bus, Ev("txs", "", 0, TxStream(loc.buf, next_frame_id), out))
         /\ IF out = "ok"
              THEN /\ pc' = "tx_rd_rxqcr2"
                   /\ next_frame_id' = NextFrameId(next_frame_id)
                   /\ txDone' = txDone + 1
                   /\ UNCHANGED ret
              ELSE /\ OnBusError("tx", "try", out)
                   /\ UNCHANGED <<next_frame_id, txDone, last>>
    /\ UNCHANGED <<regs, chip, mac, fuel, loc, entry, last>>

Tx_ReadRXQCR2 ==
    ReadStep("tx", "tx_rd_rxqcr2", "RXQCR", "unwrap", "tx_wr_sda0",
             [loc EXCEPT !.tmp = regs["RXQCR"]])

Tx_ClearSDA ==
    WriteStep("tx", "tx_wr_sda0", "RXQCR", WithBit(loc.tmp, RXQCR_SDA, FALSE), "unwrap",
              "tx_rd_txqcr")

Tx_ReadTXQCR ==
    ReadStep("tx", "tx_rd_txqcr", "TXQCR", "unwrap", "tx_wr_metfe",
             [loc EXCEPT !.tmp = regs["TXQCR"]])

\* An enqueue that goes through the auto-enqueue bit.
Tx_SetAETFE ==
    WriteStep("tx", "tx_wr_metfe", "TXQCR", WithBit(loc.tmp, TXQCR_AETFE, TRUE), "unwrap",
              "tx_wr_ier")

Tx_SetMETFE ==
    WriteStep("tx", "tx_wr_metfe", "TXQCR", WithBit(loc.tmp, TXQCR_METFE, TRUE), "unwrap",
              "tx_wr_ier")

\* self.dev.write_register(ier): the value read at entry, written back.
AllEnabled(ier) == MaskOf({15, 14, 13, 11, 9, 8, 6, 5, 4, 3, 2, 1, 0})

RestoredIer(ier) == ier

Tx_RestoreIER ==
    WriteStep("tx", "tx_wr_ier", "IER", RestoredIer(loc.ier), "unwrap", "tx_ok")

Tx_Ok ==
    /\ pc = "tx_ok"
    /\ Finish("tx", "ok", 0, <<>>, "none")
    /\ UNCHANGED <<regs, chip, mac, fuel, next_frame_id, loc, bus, entry, faults, txDone, last>>

TxSteps ==
    \/ Tx_ReadIER \/ Tx_ClearIER \/ Tx_ReadRXQCR \/ Tx_SetSDA \/ Tx_Stream \/ Tx_ReadRXQCR2
    \/ Tx_ClearSDA \/ Tx_ReadTXQCR \/ Tx_SetMETFE \/ Tx_RestoreIER \/ Tx_Ok

(***************************************************************************)
(* set_mac and get_mac (driver.rs 293-314).                                *)
(***************************************************************************)
\* Addresses given to set_mac: all zero, all ones, six different bytes, and one whose
\* two halves of each register differ in every bit.
Macs == {<<0, 0, 0, 0, 0, 0>>, <<255, 255, 255, 255, 255, 255>>, <<1, 35, 69, 103, 137, 171>>,
         <<0, 255, 85, 170, 255, 0>>}

\* MARx::zeroed().with_marx(pair): the two bytes of the register, first byte first.
MarPack(pair) == ((pair[1] % 256) * 256) + (pair[2] % 256)

\* read_marx(): the two bytes of the register, first byte first.
MarUnpack(v) == << (v \div 256) % 256, v % 256 >>

Call_set_mac == \E m \in Macs : Begin("set_mac_marh", [NoLoc EXCEPT !.buf = m])

\* write MARH with mac_addr[0..=1]
SetMac_WriteMARH ==
    WriteStep("set_mac", "set_mac_marh", "MARH", MarPack(SubSeq(loc.buf, 1, 2)), "try",
              "set_mac_marm")

\* write MARM with mac_addr[2..=3]
SetMac_WriteMARM ==
    WriteStep("set_mac", "set_mac_marm", "MARM", MarPack(SubSeq(loc.buf, 3, 4)), "try",
              "set_mac_marl")

\* write MARL with mac_addr[4..=5]
SetMac_WriteMARL ==
    WriteStep("set_mac", "set_mac_marl", "MARL", MarPack(SubSeq(loc.buf, 5, 6)), "try",
              "set_mac_ok")

SetMac_Ok ==
    /\ pc = "set_mac_ok"
    /\ Finish("set_mac", "ok", 0, <<>>, "none")
    /\ mac' = loc.buf
    /\ UNCHANGED <<regs, chip, fuel, next_frame_id, loc, bus, entry, faults, txDone, last>>

Call_get_mac == Begin("get_mac_marh", NoLoc)

\* let high = read MARH; let med = read MARM; let low = read MARL
GetMac_ReadMARH ==
    ReadStep("get_mac", "get_mac_marh", "MARH", "try", "get_mac_marm",
             [loc EXCEPT !.buf = MarUnpack(regs["MARH"])])

GetMac_ReadMARM ==
    ReadStep("get_mac", "get_mac_marm", "MARM", "try", "get_mac_marl",
             [loc EXCEPT !.buf = loc.buf \o MarUnpack(regs["MARM"])])

GetMac_ReadMARL ==
    ReadStep("get_mac", "get_mac_marl", "MARL", "try", "get_mac_ok",
             [loc EXCEPT !.buf = loc.buf \o MarUnpack(regs["MARL"])])

\* An address put together low register first.
MacLowFirst(high, med, low) == low \o med \o high

\* Ok([high[0], high[1], med[0], med[1], low[0], low[1]])
MacOf(high, med, low) == <<high[1], high[2], med[1], med[2], low[1], low[2]>>

GetMac_Ok ==
    /\ pc = "get_mac_ok"
    /\ Finish("get_mac", "ok", 0,
              MacOf(SubSeq(loc.buf, 1, 2), SubSeq(loc.buf, 3, 4), SubSeq(loc.buf, 5, 6)), "none")
    /\ UNCHANGED <<regs, chip, mac, fuel, next_frame_id, loc, bus, entry, faults, txDone, last>>

MacSteps ==
    \/ Call_set_mac \/ SetMac_WriteMARH \/ SetMac_WriteMARM \/ SetMac_WriteMARL \/ SetMac_Ok
    \/ Call_get_mac \/ GetMac_ReadMARH \/ GetMac_ReadMARM \/ GetMac_ReadMARL \/ GetMac_Ok

(***************************************************************************)
(* set_leds, link_good and rx_frames_available (driver.rs 287-290,         *)
(* 317-319, 407-413).  The port registers P1CR and P1SR are outside the    *)
(* register file kept here: a read of one returns what the port shows, a   *)
(* write to P1CR changes no register the driver reads elsewhere.           *)
(***************************************************************************)
Call_set_leds == \E on \in BOOLEAN : Begin("set_leds_rd", [NoLoc EXCEPT !.i = IF on THEN 1 ELSE 0])

\* let p1cr = read P1CR ?  .with_led_off(!on)
SetLeds_ReadP1CR ==
    /\ pc = "set_leds_rd"
    /\ \E out \in BusOutcomes, off \in {0, 1} :
         /\ Fault(out)
         /\ (out # "ok") => (off = 0)
         /\ bus' = Append(bus, Ev("rd", "P1CR", off, <<>>, out))
         /\ IF out = "ok"
              THEN pc' = "set_leds_wr" /\ loc' = [loc EXCEPT !.tmp = 1 - loc.i] /\ UNCHANGED ret
              ELSE OnBusError("set_leds", "try", out) /\ UNCHANGED loc
    /\ UNCHANGED <<regs, chip, mac, fuel, next_frame_id, entry, txDone, last>>

\* write P1CR .map_err(Into::into)
SetLeds_WriteP1CR ==
    /\ pc = "set_leds_wr"
    /\ \E out \in BusOutcomes :
         /\ Fault(out)
         /\ bus' = Append(bus, Ev("wr", "P1CR", loc.tmp, <<>>, out))
         /\ IF out = "ok"
              THEN Finish("set_leds", "ok", 0, <<>>, "none")
              ELSE OnBusError("set_leds", "try", out)
    /\ UNCHANGED <<regs, chip, mac, fuel, next_frame_id, loc, entry, txDone, last>>

Call_link_good == Begin("link_good_rd", NoLoc)

\* Ok(read P1SR ? .read_link_good())
LinkGood_ReadP1SR ==
    /\ pc = "link_good_rd"
    /\ \E out \in BusOutcomes, up \in {0, 1} :
         /\ Fault(out)
         /\ (out # "ok") => (up = 0)
         /\ bus' = Append(bus, Ev("rd", "P1SR", up, <<>>, out))
         /\ IF out = "ok"
              THEN Finish("link_good", "ok", up, <<>>, "none")
              ELSE OnBusError("link_good", "try", out)
    /\ UNCHANGED <<regs, chip, mac, fuel, next_frame_id, loc, entry, txDone, last>>

Call_rx_frames_available == Begin("rx_frames_rd", NoLoc)

\* Ok(read RXFCTR ? .read_rx_frame_count())
RxFrames_ReadRXFCTR ==
    /\ pc = "rx_frames_rd"
    /\ \E out \in BusOutcomes :
         /\ Fault(out)
         /\ bus' = Append(bus, Ev("rd", "RXFCTR", IF out = "ok" THEN regs["RXFCTR"] ELSE 0,
                                  reg_cmd(OpRegRead, Addr("RXFCTR"), RegSize), out))
         /\ IF out = "ok"
              THEN Finish("rx_frames_available", "ok", Field(regs["RXFCTR"], 8, 8), <<>>, "none")
              ELSE OnBusError("rx_frames_available", "try", out)
    /\ UNCHANGED <<regs, chip, mac, fuel, next_frame_id, loc, entry, txDone, last>>

(***************************************************************************)
(* What happens outside the driver.                                        *)
(***************************************************************************)
\* The host programs the interrupt mask through the public `dev` handle, between calls.
HostWriteIER ==
    /\ pc = "idle"
    /\ \E m \in HostMasks : regs' = ChipWrite(regs, chip, "IER", m)
    /\ last' = NoLast
    /\ UNCHANGED <<chip, mac, fuel, next_frame_id, pc, loc, ret, bus, entry, faults, txDone>>

\* The TXQ fills and drains.  ready_tx reads TXMIR in one transaction, so a change during
\* a call shows the driver what a change just before the call or just after it shows.
ChipTxMemory ==
    /\ pc = "idle"
    /\ \E v \in TxSpaces : regs' = [regs EXCEPT !["TXMIR"] = v]
    /\ regs' # regs
    /\ UNCHANGED <<chip, mac, fuel, next_frame_id, pc, loc, ret, bus, entry, faults, txDone, last>>

\* METFE and TXQMAM are self-clearing once the frame has been transmitted.
ChipTxDone ==
    /\ pc = "idle"
    /\ \E b \in {TXQCR_METFE, TXQCR_TXQMAM} :
         /\ Bit(regs["TXQCR"], b) = 1
         /\ regs' = [regs EXCEPT !["TXQCR"] = WithBit(@, b, FALSE)]
    /\ UNCHANGED <<chip, mac, fuel, next_frame_id, pc, loc, ret, bus, entry, faults, txDone, last>>

(***************************************************************************)
(* rx (driver.rs 416-529).                                                 *)
(***************************************************************************)
\* Capacities of the caller's receive buffer.
RxCaps == {8, 16}

\* The caller's buffer before rx, filled with a byte no frame carries.
Fill(n) == [i \in 1..n |-> 238]

\* Frame headers the chip may show at the head of the RXQ: none, valid frames of
\* several sizes, a valid frame with a CRC error, an error flag without frame-valid.
Frames ==
    {[status |-> 0, bc |-> 0],
     [status |-> MaskOf({RXFHSR_RXFV, 5}), bc |-> 4],
     [status |-> MaskOf({RXFHSR_RXFV, 5}), bc |-> 10],
     [status |-> MaskOf({RXFHSR_RXFV, 6}), bc |-> 10],
     [status |-> MaskOf({RXFHSR_RXFV, 5}), bc |-> 11],
     [status |-> MaskOf({RXFHSR_RXFV, 5}), bc |-> 20],
     [status |-> MaskOf({RXFHSR_RXFV, 5, 0}), bc |-> 10],
     [status |-> MaskOf({0}), bc |-> 10]}

\* Byte i of the payload of the frame whose header is (status, bc).
FrameByte(status, bc, i) == ((status % 7) + (3 * bc) + i) % 200

\* RXFHSR.read_all(): the named fields of the status word.
ReadAll(v) == SetClr(v, {}, (0..15) \ RXFHSR_Fields)

\* RXFHBCR.read_receive_byte_count(): bits 11..0.
ReceiveByteCount(v) == Field(v, 0, 12)

FrameValid(st) == Bit(st, RXFHSR_RXFV) = 1

FrameError(st) == \E b \in RXFHSR_ErrorBits : Bit(st, b) = 1

Call_rx ==
    \E cap \in RxCaps : Begin("rx_rd_ier", [NoLoc EXCEPT !.rx_buf = Fill(cap)])

Rx_ReadIER ==
    ReadStep("rx", "rx_rd_ier", "IER", "try", "rx_assert", [loc EXCEPT !.ier = regs["IER"]])

\* An rx that does not look at the receive-interrupt bit.
Rx_AssertSkipped ==
    /\ pc = "rx_assert"
    /\ pc' = "rx_wr_ier0"
    /\ UNCHANGED <<regs, chip, mac, fuel, next_frame_id, loc, ret, bus, entry, faults, txDone, last>>

\* assert!(!ier.read_receive_enable())
Rx_Assert ==
    /\ pc = "rx_assert"
    /\ IF Bit(loc.ier, IER_RXIE) = 1 THEN Abort("rx") ELSE pc' = "rx_wr_ier0" /\ UNCHANGED ret
    /\ UNCHANGED <<regs, chip, mac, fuel, next_frame_id, loc, bus, entry, faults, txDone, last>>

Rx_ClearIER ==
    WriteStep("rx", "rx_wr_ier0", "IER", 0, "unwrap", "rx_rd_rxfhsr")

Rx_ReadRXFHSR ==
    ReadStep("rx", "rx_rd_rxfhsr", "RXFHSR", "try", "rx_rd_rxfhbcr",
             [loc EXCEPT !.frame_status = ReadAll(regs["RXFHSR"])])

Rx_ReadRXFHBCR ==
    ReadStep("rx", "rx_rd_rxfhbcr", "RXFHBCR", "unwrap", "rx_classify",
             [loc EXCEPT !.byte_count = ReceiveByteCount(regs["RXFHBCR"])])

\* A classification that looks at the error flags before the frame-valid bit.
RxClassifyErrorsFirst(frame_status, byte_count, cap) ==
    IF FrameError(frame_status) THEN "discard"
    ELSE IF ~FrameValid(frame_status) THEN "RxNoFrameAvailable"
    ELSE IF byte_count > cap THEN "panic"
    ELSE "read"

\* A classification without the capacity check.
RxClassifyNoCapacity(frame_status, byte_count, cap) ==
    IF ~FrameValid(frame_status) THEN "RxNoFrameAvailable"
    ELSE IF FrameError(frame_status) THEN "discard"
    ELSE "read"

\* Where rx goes once it holds the header: the early returns and the capacity panic.
RxClassify(frame_status, byte_count, cap) ==
    IF ~FrameValid(frame_status) THEN "RxNoFrameAvailable"
    ELSE IF FrameError(frame_status) THEN "discard"
    ELSE IF byte_count > cap THEN "panic"
    ELSE "read"

Rx_Classify ==
    /\ pc = "rx_classify"
    /\ LET c == RxClassify(loc.frame_status, loc.byte_count, Len(loc.rx_buf))
       IN  CASE c = "RxNoFrameAvailable" -> Finish("rx", "RxNoFrameAvailable", 0, <<>>, "none")
             [] c = "discard" -> pc' = "rx_rd_rxqcr_err" /\ UNCHANGED ret
             [] c = "panic" -> Abort("rx")
             [] OTHER -> pc' = "rx_rd_rxfdpr" /\ UNCHANGED ret
    /\ UNCHANGED <<regs, chip, mac, fuel, next_frame_id, loc, bus, entry, faults, txDone, last>>

Rx_ReadRXQCRErr ==
    ReadStep("rx", "rx_rd_rxqcr_err", "RXQCR", "unwrap", "rx_wr_rrxef",
             [loc EXCEPT !.tmp = regs["RXQCR"]])

Rx_SetRRXEF ==
    WriteStep("rx", "rx_wr_rrxef", "RXQCR", WithBit(loc.tmp, RXQCR_RRXEF, TRUE), "unwrap",
              "rx_wait")

\* A wait loop that goes on while the bit reads 0.
Rx_WaitWhileClear ==
    /\ pc = "rx_wait"
    /\ \E out \in BusOutcomes :
         /\ Fault(out)
         /\ LET e == Ev("rd", "RXQCR", IF out = "ok" THEN regs["RXQCR"] ELSE 0,
                        reg_cmd(OpRegRead, Addr("RXQCR"), RegSize), out)
            IN  bus' = IF bus[Len(bus)] = e THEN bus ELSE Append(bus, e)
         /\ IF out # "ok" THEN OnBusError("rx", "unwrap", out)
            ELSE IF Bit(regs["RXQCR"], RXQCR_RRXEF) = 0 THEN UNCHANGED <<pc, ret>>
            ELSE Finish("rx", "RxFrameInvalid", 0, <<>>, "none")
    /\ UNCHANGED <<regs, chip, mac, fuel, next_frame_id, loc, entry, txDone, last>>

\* while read_register::<RXQCR>().unwrap().read_release_rx_error_frame() {}
\* A poll that finds the bit still set leaves rx where it is; the trace keeps one
\* entry for a run of such polls.
Rx_Wait ==
    /\ pc = "rx_wait"
    /\ \E out \in BusOutcomes :
         /\ Fault(out)
         /\ LET e == Ev("rd", "RXQCR", IF out = "ok" THEN regs["RXQCR"] ELSE 0,
                        reg_cmd(OpRegRead, Addr("RXQCR"), RegSize), out)
            IN  bus' = IF bus[Len(bus)] = e THEN bus ELSE Append(bus, e)
         /\ IF out # "ok" THEN OnBusError("rx", "unwrap", out)
            ELSE IF Bit(regs["RXQCR"], RXQCR_RRXEF) = 1 THEN UNCHANGED <<pc, ret>>
            ELSE Finish("rx", "RxFrameInvalid", 0, <<>>, "none")
    /\ UNCHANGED <<regs, chip, mac, fuel, next_frame_id, loc, entry, txDone, last>>

Rx_ReadRXFDPR ==
    ReadStep("rx", "rx_rd_rxfdpr", "RXFDPR", "unwrap", "rx_wr_rxfdpr",
             [loc EXCEPT !.tmp = regs["RXFDPR"]])

\* An rx that resets the pointer by writing a zeroed RXFDPR.
Rx_ResetPointerZeroed ==
    WriteStep("rx", "rx_wr_rxfdpr", "RXFDPR", 0, "unwrap", "rx_rd_rxqcr")

\* rxfdpr.with_rx_frame_pointer(0): bits 10..0
Rx_ResetPointer ==
    WriteStep("rx", "rx_wr_rxfdpr", "RXFDPR", WithField(loc.tmp, 0, 11, 0), "unwrap",
              "rx_rd_rxqcr")

Rx_ReadRXQCR ==
    ReadStep("rx", "rx_rd_rxqcr", "RXQCR", "unwrap", "rx_wr_sda1",
             [loc EXCEPT !.tmp = regs["RXQCR"]])

Rx_SetSDA ==
    WriteStep("rx", "rx_wr_sda1", "RXQCR", WithBit(loc.tmp, RXQCR_SDA, TRUE), "unwrap",
              "rx_stream")

\* Bytes the payload slice rx_buf[0..(byte_count - 4 - 2)] asks for.  Below 6 the u16
\* subtraction overflows: a build with overflow checks panics there, and one without
\* wraps to more than 65529, past the end of any buffer of the model, and the slice panics.
RxPayloadLen(byte_count) == byte_count - 4 - 2

\* assert_eq!(frame_status, status.read_all()); assert_eq!(byte_count, bc...)
StatusConsistent(frame_status, byte_count, st, bc) == frame_status = ReadAll(st)

HeaderConsistent(frame_status, byte_count, st, bc) ==
    (frame_status = ReadAll(st)) /\ (byte_count = ReceiveByteCount(bc))

\* A result that counts the bytes stored in rx_buf.
RxReturnStored(byte_count) == byte_count - 6

\* Ok((byte_count - 4).into())
RxReturnLen(byte_count) == byte_count - 4

\* The streaming read: opcode, 4 dummy bytes, status, byte count, 2 offset bytes, the
\* payload into rx_buf, 4 CRC bytes, the alignment discard; then the two assert_eq!.
\* The trace entry holds the number of bytes moved and, as data, the opcode byte and
\* the status and byte-count words that came out of the stream.
Rx_Stream ==
    /\ pc = "rx_stream"
    /\ LET n   == RxPayloadLen(loc.byte_count)
           st  == regs["RXFHSR"]
           bc  == regs["RXFHBCR"]
           got == [i \in 1..Len(loc.rx_buf) |->
                      IF i <= n THEN FrameByte(st, bc, i) ELSE loc.rx_buf[i]]
       IN  IF (n < 0) \/ (n > Len(loc.rx_buf))
             THEN Abort("rx") /\ UNCHANGED <<bus, loc, faults>>
             ELSE \E out \in BusOutcomes :
                    /\ Fault(out)
                    /\ bus' = Append(bus, Ev("rxs", "", 1 + 4 + 2 + 2 + 2 + n + 4 + PadLen(loc.byte_count),
                                             << OpRXRead * 64, st, bc >>, out))
                    /\ IF out # "ok" THEN OnBusError("rx", "unwrap", out) /\ UNCHANGED loc
                       ELSE /\ loc' = [loc EXCEPT !.rx_buf = got]
                            /\ IF HeaderConsistent(loc.frame_status, loc.byte_count, st, bc)
                                 THEN pc' = "rx_rd_rxqcr2" /\ UNCHANGED ret
                                 ELSE Abort("rx")
    /\ UNCHANGED <<regs, chip, mac, fuel, next_frame_id, entry, txDone, last>>

Rx_ReadRXQCR2 ==
    ReadStep("rx", "rx_rd_rxqcr2", "RXQCR", "unwrap", "rx_wr_sda0",
             [loc EXCEPT !.tmp = regs["RXQCR"]])

\* An rx that leaves streaming access on after the stream.
Rx_LeaveSDA ==
    WriteStep("rx", "rx_wr_sda0", "RXQCR", WithBit(loc.tmp, RXQCR_SDA, TRUE), "unwrap",
              "rx_wr_ier")

Rx_ClearSDA ==
    WriteStep("rx", "rx_wr_sda0", "RXQCR", WithBit(loc.tmp, RXQCR_SDA, FALSE), "unwrap",
              "rx_wr_ier")

Rx_RestoreIER ==
    WriteStep("rx", "rx_wr_ier", "IER", RestoredIer(loc.ier), "unwrap", "rx_ok")

Rx_Ok ==
    /\ pc = "rx_ok"
    /\ Finish("rx", "ok", RxReturnLen(loc.byte_count), <<>>, "none")
    /\ UNCHANGED <<regs, chip, mac, fuel, next_frame_id, loc, bus, entry, faults, txDone, last>>

\* Steps of rx at which the frame at the head of the RXQ may still be replaced before
\* the streaming read.
RxBeforeStream == {"rx_rd_ier", "rx_assert", "rx_wr_ier0", "rx_rd_rxfhsr", "rx_rd_rxfhbcr",
                   "rx_classify", "rx_rd_rxfdpr", "rx_wr_rxfdpr", "rx_rd_rxqcr", "rx_wr_sda1",
                   "rx_stream"}

\* A frame arrives, or the frame at the head of the RXQ is replaced by another.
ChipRxFrame ==
    /\ pc \in {"idle"} \cup RxBeforeStream
    /\ \E f \in Frames :
         regs' = [regs EXCEPT !["RXFHSR"] = f.status, !["RXFHBCR"] = f.bc]
    /\ regs' # regs
    /\ UNCHANGED <<chip, mac, fuel, next_frame_id, pc, loc, ret, bus, entry, faults, txDone, last>>

\* The chip has dropped the error frame: RRXEF clears itself and the RXQ head is empty.
ChipRxReleased ==
    /\ Bit(regs["RXQCR"], RXQCR_RRXEF) = 1
    /\ regs' = [regs EXCEPT !["RXQCR"] = WithBit(@, RXQCR_RRXEF, FALSE),
                            !["RXFHSR"] = 0, !["RXFHBCR"] = 0]
    /\ UNCHANGED <<chip, mac, fuel, next_frame_id, pc, loc, ret, bus, entry, faults, txDone, last>>

\* Headers with one flag each: every error flag on a valid frame, the frame-type flag
\* (no error), a clean frame, and no frame.
FlagFrames ==
    {[status |-> MaskOf({RXFHSR_RXFV, b}), bc |-> 10] : b \in {0, 1, 2, 3, 4, 10, 11, 12, 13}}
        \cup {[status |-> MaskOf({RXFHSR_RXFV, 5}), bc |-> 10], [status |-> 0, bc |-> 0]}

\* A frame of FlagFrames reaches the head of the RXQ between two calls.
ChipRxFlagFrame ==
    /\ pc = "idle"
    /\ \E f \in FlagFrames :
         regs' = [regs EXCEPT !["RXFHSR"] = f.status, !["RXFHBCR"] = f.bc]
    /\ regs' # regs
    /\ UNCHANGED <<chip, mac, fuel, next_frame_id, pc, loc, ret, bus, entry, faults, txDone, last>>

RxSteps ==
    \/ Call_rx \/ Rx_ReadIER \/ Rx_Assert \/ Rx_ClearIER \/ Rx_ReadRXFHSR \/ Rx_ReadRXFHBCR
    \/ Rx_Classify \/ Rx_ReadRXQCRErr \/ Rx_SetRRXEF \/ Rx_Wait \/ Rx_ReadRXFDPR
    \/ Rx_ResetPointer \/ Rx_ReadRXQCR \/ Rx_SetSDA \/ Rx_Stream \/ Rx_ReadRXQCR2
    \/ Rx_ClearSDA \/ Rx_RestoreIER \/ Rx_Ok

\* The host writes one MAC register through the public `dev` handle, between calls.
HostWriteMAR ==
    /\ pc = "idle"
    /\ \E r \in {"MARH", "MARM", "MARL"} : \E v \in {0, 4660} :
         regs' = ChipWrite(regs, chip, r, v)
    /\ mac' = <<>>
    /\ UNCHANGED <<chip, fuel, next_frame_id, pc, loc, ret, bus, entry, faults, txDone, last>>

(***************************************************************************)
(* MAC address: set_mac and get_mac in any order.                          *)
(***************************************************************************)
MaxMacCalls == 3

InitMac == InitWith(GoodChips, MaxMacCalls)

NextMac == MacSteps \/ Return \/ HostWriteMAR

SpecMac == InitMac /\ [][NextMac]_vars

(***************************************************************************)
(* reg_cmd on its own: every opcode, every u8 address, widths 0..MaxCount. *)
(***************************************************************************)
MaxCount == 3

\* The arguments of one call: o in loc.i, addr in loc.tmp, count in loc.len.
InitRegCmd == InitWith(GoodChips, 0)

RegCmdArgs ==
    [i : {OpRegRead, OpRegWrite, OpRXRead, OpTXWrite}, tmp : 0..255, len : 0..MaxCount]

\* One call of reg_cmd: the header, or the panic of unimplemented!().
Call_reg_cmd ==
    /\ pc = "idle"
    /\ ret = NoRet
    /\ \E a \in RegCmdArgs :
         LET h == reg_cmd(a.i, a.tmp, a.len)
         IN  /\ loc' = [NoLoc EXCEPT !.i = a.i, !.tmp = a.tmp, !.len = a.len]
             /\ IF h = Unimplemented THEN Abort("reg_cmd")
                ELSE Finish("reg_cmd", "ok", 0, h, "none")
    /\ UNCHANGED <<regs, chip, mac, fuel, next_frame_id, bus, entry, faults, txDone, last>>

NextRegCmd == Call_reg_cmd

SpecRegCmd == InitRegCmd /\ [][NextRegCmd]_vars

(***************************************************************************)
(* Ksz8851snlInterface (device.rs 1008-1044): register access by address.  *)
(***************************************************************************)
\* Arguments of one access: the address in tmp, size_bits in len, the data word in i.
DevArgs == [tmp : 0..255, len : {8, 16, 32}, i : {0, 4660}]

\* The outcome of an access that got past its assert!: reg_cmd(.., address, 2) may
\* itself panic; otherwise one transaction, whose failure is returned as BUS::Error.
DevTransaction(op, t, a, out) ==
    LET h == reg_cmd(IF t = "rd" THEN OpRegRead ELSE OpRegWrite, a.tmp, 2)
        r == {x \in RegNames : Addr(x) = a.tmp}
    IN  IF h = Unimplemented THEN Abort(op) /\ UNCHANGED <<bus, regs, faults>>
        ELSE /\ Fault(out)
             /\ bus' = <<Ev(t, "", a.i, h, out)>>
             /\ regs' = IF (t = "wr") /\ (out = "ok") /\ (r # {})
                          THEN ChipWrite(regs, chip, CHOOSE x \in r : TRUE, a.i) ELSE regs
             /\ Finish(op, IF out = "ok" THEN "ok" ELSE "BusError", 0, <<>>,
                       IF out = "ok" THEN "none" ELSE out)

\* read_register: assert!(size_bits == 16)
Dev_read_register ==
    /\ pc = "idle"
    /\ \E a \in DevArgs : \E out \in BusOutcomes :
         /\ loc' = [NoLoc EXCEPT !.tmp = a.tmp, !.len = a.len, !.i = a.i]
         /\ IF a.len = 16 THEN DevTransaction("dev_read_register", "rd", a, out)
            ELSE Abort("dev_read_register") /\ UNCHANGED <<bus, regs, faults>>
    /\ UNCHANGED <<chip, mac, fuel, next_frame_id, entry, txDone, last>>

\* write_register: assert!(size_bits != 16)
Dev_write_register ==
    /\ pc = "idle"
    /\ \E a \in DevArgs : \E out \in BusOutcomes :
         /\ loc' = [NoLoc EXCEPT !.tmp = a.tmp, !.len = a.len, !.i = a.i]
         /\ IF a.len # 16 THEN DevTransaction("dev_write_register", "wr", a, out)
            ELSE Abort("dev_write_register") /\ UNCHANGED <<bus, regs, faults>>
    /\ UNCHANGED <<chip, mac, fuel, next_frame_id, entry, txDone, last>>

NextDev == Dev_read_register \/ Dev_write_register

SpecDev == InitRegCmd /\ [][NextDev]_vars

(***************************************************************************)
(* Receive path: rx on an identified chip.                                 *)
(***************************************************************************)
InitRx == InitWith({c \in GoodChips : c.reset}, MaxCalls)

NextRx == RxSteps \/ Return \/ HostWriteIER \/ ChipRxFrame \/ ChipRxReleased

SpecRx == InitRx /\ [][NextRx]_vars

(***************************************************************************)
(* Receive path, one header flag at a time.                                *)
(***************************************************************************)
InitRxFlags == InitWith({c \in GoodChips : c.reset}, MaxCalls)

NextRxFlags == RxSteps \/ Return \/ HostWriteIER \/ ChipRxFlagFrame \/ ChipRxReleased

SpecRxFlags == InitRxFlags /\ [][NextRxFlags]_vars

(***************************************************************************)
(* Receive path on a bus that never fails, with a driver that keeps being  *)
(* polled and a chip that releases an error frame it was told to release.  *)
(***************************************************************************)
InitRxLive ==
    /\ chip \in {c \in GoodChips : c.reset}
    /\ regs = ResetDefaults(chip)
    /\ next_frame_id = 0
    /\ pc = "idle"
    /\ loc = NoLoc
    /\ ret = NoRet
    /\ bus = <<>>
    /\ entry = NoEntry
    /\ faults = MaxFaults
    /\ fuel = MaxCalls
    /\ txDone = 0
    /\ last = NoLast
    /\ mac = <<>>

SpecRxLive ==
    InitRxLive /\ [][NextRxFlags]_vars /\ WF_vars(RxSteps) /\ WF_vars(ChipRxReleased)

(***************************************************************************)
(* Initialisation: init on every chip variant, with host-programmed masks.   *)
(***************************************************************************)
InitInit == InitWith(ChipVariants, MaxCalls)

NextInit == InitSteps \/ Return \/ HostWriteIER

SpecInit == InitInit /\ [][NextInit]_vars

(***************************************************************************)
(* Transmit path: ready_tx and tx on an identified chip.                   *)
(***************************************************************************)
InitTx == InitWith({c \in GoodChips : c.reset}, MaxCalls)

NextTx ==
    \/ Call_ready_tx \/ ReadyTx_Check \/ ReadyTx_ReadTXMIR \/ ReadyTx_Compare
    \/ ReadyTx_WriteTXNTFSR \/ ReadyTx_WriteTXQCR \/ ReadyTx_False
    \/ Call_tx \/ TxSteps \/ Return \/ HostWriteIER \/ ChipTxMemory \/ ChipTxDone

SpecTx == InitTx /\ [][NextTx]_vars

(***************************************************************************)
(* One tx of a payload of a length up to the maximum.                      *)
(***************************************************************************)
InitTxFrame == InitWith({c \in GoodChips : c.reset}, 1)

NextTxFrame == Call_tx_any \/ TxSteps \/ Return

SpecTxFrame == InitTxFrame /\ [][NextTxFrame]_vars

(***************************************************************************)
(* A long run of tx calls: the frame-id counter goes round.                *)
(***************************************************************************)
InitTxSeq == InitWith({c \in GoodChips : c.reset}, MaxTx)

NextTxSeq == Call_tx \/ TxSteps \/ Return

SpecTxSeq == InitTxSeq /\ [][NextTxSeq]_vars

(***************************************************************************)
(* Frame transfer: tx and rx with host-programmed masks and arriving frames. *)
(***************************************************************************)
InitIo == InitWith({c \in GoodChips : c.reset}, MaxCalls)

NextIo ==
    \/ Call_tx \/ TxSteps \/ RxSteps \/ Return \/ HostWriteIER \/ ChipRxFrame \/ ChipRxReleased

SpecIo == InitIo /\ [][NextIo]_vars

(***************************************************************************)
(* The whole driver in use: the caller runs init until it returns Ok, then *)
(* uses every other operation; it may program IER through `dev` between    *)
(* calls, and may run init again.                                          *)
(***************************************************************************)
MaxApiCalls == 3

InitDriver == InitWith({c \in GoodChips : c.reset}, MaxApiCalls)

\* init has written its last register, the receive enable, since the last reset.
Initialised == Bit(regs["TXCR"], TXCR_TXE) = 1 /\ Bit(regs["RXCR1"], RXCR1_RXE) = 1

\* One input per operation: a one-byte payload, a 16-byte receive buffer, a host that
\* switches every interrupt source off, a chip that shows a 10-byte frame, clean or in
\* error, a TXQ that runs full.
NextDriver ==
    \/ InitSteps
    \/ (Initialised /\ Call_ready_tx /\ loc'.len = 1)
    \/ ReadyTx_Check \/ ReadyTx_ReadTXMIR \/ ReadyTx_Compare
    \/ ReadyTx_WriteTXNTFSR \/ ReadyTx_WriteTXQCR \/ ReadyTx_False
    \/ (Initialised /\ Call_tx /\ Len(loc'.buf) = 1)
    \/ TxSteps
    \/ (Initialised /\ Call_rx /\ Len(loc'.rx_buf) = 16)
    \/ Rx_ReadIER \/ Rx_Assert \/ Rx_ClearIER \/ Rx_ReadRXFHSR \/ Rx_ReadRXFHBCR
    \/ Rx_Classify \/ Rx_ReadRXQCRErr \/ Rx_SetRRXEF \/ Rx_Wait \/ Rx_ReadRXFDPR
    \/ Rx_ResetPointer \/ Rx_ReadRXQCR \/ Rx_SetSDA \/ Rx_Stream \/ Rx_ReadRXQCR2
    \/ Rx_ClearSDA \/ Rx_RestoreIER \/ Rx_Ok
    \/ (Initialised /\ Call_set_mac /\ loc'.buf = <<1, 35, 69, 103, 137, 171>>)
    \/ SetMac_WriteMARH \/ SetMac_WriteMARM \/ SetMac_WriteMARL \/ SetMac_Ok
    \/ (Initialised /\ Call_get_mac)
    \/ GetMac_ReadMARH \/ GetMac_ReadMARM \/ GetMac_ReadMARL \/ GetMac_Ok
    \/ (Initialised /\ Call_set_leds) \/ SetLeds_ReadP1CR \/ SetLeds_WriteP1CR
    \/ (Initialised /\ Call_link_good) \/ LinkGood_ReadP1SR
    \/ (Initialised /\ Call_rx_frames_available) \/ RxFrames_ReadRXFCTR
    \/ (Initialised /\ HostWriteIER /\ regs'["IER"] = 0)
    \/ (Initialised /\ ChipRxFrame /\ pc = "idle" /\ regs'["RXFHBCR"] = 10)
    \/ ChipRxReleased
    \/ (Initialised /\ ChipTxMemory /\ regs'["TXMIR"] = 4)
    \/ ChipTxDone
    \/ Return

SpecDriver == InitDriver /\ [][NextDriver]_vars

(***************************************************************************)
(* C1.  For every payload length L up to 2000 the streaming transaction of *)
(* tx is issued once and carries 1 + 2 + 2 + L + ((4 - L mod 4) mod 4)     *)
(* bytes: the opcode byte, the 2-byte control word, L in little-endian,    *)
(* the L payload bytes unchanged, then the (zero) padding bytes.           *)
(***************************************************************************)
TxStreams == {k \in 1..Len(bus) : bus[k].t = "txs"}

C1_TxFraming ==
    /\ Cardinality(TxStreams) <= 1
    /\ (pc \in {"tx_rd_rxqcr2", "tx_wr_sda0", "tx_rd_txqcr", "tx_wr_metfe", "tx_wr_ier", "tx_ok"})
          => (Cardinality(TxStreams) = 1)
    /\ \A k \in TxStreams :
         LET d   == bus[k].data
             L   == Len(loc.buf)
             pad == (4 - (L % 4)) % 4
         IN  /\ Len(d) = 1 + 2 + 2 + L + pad
             /\ d[1] = 192
             /\ d[4] = L % 256
             /\ d[5] = L \div 256
             /\ \A i \in 1..L : d[5 + i] = loc.buf[i]
             /\ \A i \in 1..pad : d[5 + L + i] = 0

\* A 1997-byte payload (three padding bytes, a length above 255) went out.
C1_Witness ==
    \E k \in TxStreams : bus[k].out = "ok" /\ Len(loc.buf) = 1997 /\ Len(bus[k].data) = 2005

(***************************************************************************)
(* C2.  From a new driver, the frame id in the control word of the k-th    *)
(* successful tx is (k - 1) mod 32; the counter stays within 0..31 and     *)
(* the value 32 is never emitted.                                          *)
(***************************************************************************)
C2_FrameIdWraps ==
    /\ next_frame_id \in 0..31
    /\ next_frame_id = txDone % 32
    /\ \A k \in TxStreams :
         LET id == bus[k].data[2] % 64
         IN  /\ id # 32
             /\ id \in 0..31
             /\ id = (IF bus[k].out = "ok" THEN txDone - 1 ELSE txDone) % 32

\* The 33rd successful tx has gone out with frame id 0: the counter wrapped after 31.
C2_Witness ==
    /\ txDone = 33
    /\ \E k \in TxStreams : bus[k].out = "ok" /\ bus[k].data[2] = 0

(***************************************************************************)
(* C3.  Whenever tx or rx returns success, the interrupt-enable register   *)
(* holds the value it held when the call began.                            *)
(***************************************************************************)
C3_IerRestoredOnSuccess ==
    (pc = "done" /\ ret.op \in {"tx", "rx"} /\ ret.kind = "ok")
        => (regs["IER"] = entry.regs["IER"])

\* A successful rx after a successful tx, with a mask other than zero in place.
C3_Witness ==
    /\ pc = "done" /\ ret.op = "rx" /\ ret.kind = "ok"
    /\ last.op = "tx" /\ last.kind = "ok"
    /\ entry.regs["IER"] # 0
    /\ regs["IER"] = entry.regs["IER"]

(***************************************************************************)
(* C4.  Whenever rx returns RxNoFrameAvailable or RxFrameInvalid, the      *)
(* interrupt-enable register has been restored to the value it held when   *)
(* rx was called.                                                          *)
(***************************************************************************)
C4_IerRestoredOnRecoverableError ==
    (pc = "done" /\ ret.op = "rx" /\ ret.kind \in {"RxNoFrameAvailable", "RxFrameInvalid"})
        => (regs["IER"] = entry.regs["IER"])

(***************************************************************************)
(* C5.  If the status word or the byte count that came out of the rx       *)
(* stream differs from the one rx read through register access before the  *)
(* stream, rx fails: it never returns success or a payload length.         *)
(***************************************************************************)
RxStreams == {k \in 1..Len(bus) : bus[k].t = "rxs" /\ bus[k].out = "ok"}

\* The value the k-th transaction's predecessors read from register r.
ReadBefore(k, r) == {bus[i].val : i \in {j \in 1..(k - 1) : bus[j].t = "rd" /\ bus[j].reg = r
                                                               /\ bus[j].out = "ok"}}

StreamMismatch(k) ==
    \/ bus[k].data[2] \notin ReadBefore(k, "RXFHSR")
    \/ bus[k].data[3] \notin ReadBefore(k, "RXFHBCR")

C5_MismatchNeverReturnsData ==
    (\E k \in RxStreams : StreamMismatch(k))
        => (pc = "aborted" /\ ret.op = "rx" /\ ret.kind = "panic")

\* The frame was replaced by one of another length between the header reads and the
\* stream, and rx has stopped.
C5_Witness ==
    /\ pc = "aborted"
    /\ \E k \in RxStreams :
         /\ bus[k].data[2] \in ReadBefore(k, "RXFHSR")
         /\ bus[k].data[3] \notin ReadBefore(k, "RXFHBCR")

(***************************************************************************)
(* C6.  For every len > 2000, ready_tx(len) returns TxPacketTooBig with    *)
(* size len and max 2000, issues no bus transaction and changes neither    *)
(* the chip nor the driver.                                                *)
(***************************************************************************)
C6_OversizedRejectedBeforeBus ==
    (pc # "idle" /\ loc.len > 2000)
        => /\ pc \in {"ready_tx_check", "done"}
           /\ bus = <<>>
           /\ regs = entry.regs
           /\ next_frame_id = entry.next_frame_id
           /\ (pc = "done") => /\ ret.op = "ready_tx"
                               /\ ret.kind = "TxPacketTooBig"
                               /\ ret.info = <<loc.len, 2000>>

\* ready_tx(2001) has returned.
C6_Witness ==
    pc = "done" /\ ret.op = "ready_tx" /\ loc.len = 2001 /\ ret.kind = "TxPacketTooBig"

(***************************************************************************)
(* C7.  For len <= 2000 and a bus that does not fail, ready_tx(len)        *)
(* returns true exactly when len + 4 <= the available TX space read from   *)
(* the chip, and false otherwise.                                          *)
(***************************************************************************)
BusFailed == \E k \in 1..Len(bus) : bus[k].out # "ok"

C7_ReadyIffRoom ==
    (ret.op = "ready_tx" /\ loc.len <= 2000 /\ ~BusFailed)
        => /\ pc = "done"
           /\ ret.kind = "ok"
           /\ bus[1].t = "rd" /\ bus[1].reg = "TXMIR"
           /\ ret.val = (IF loc.len + 4 <= bus[1].val THEN 1 ELSE 0)

\* ready_tx(2000) with exactly 2004 bytes free returned true.
C7_Witness ==
    /\ pc = "done" /\ ret.op = "ready_tx" /\ ret.kind = "ok" /\ ret.val = 1
    /\ loc.len = 2000 /\ bus[1].val = 2004

(***************************************************************************)
(* C8.  When ready_tx returns false it has written len + 4 to TXNTFSR and  *)
(* then set the memory-available-monitor bit of TXQCR, in that order; when *)
(* it returns true it has issued no register write.                        *)
(***************************************************************************)
Writes == SelectSeq(bus, LAMBDA e : e.t = "wr")

C8_ArmThenFalse ==
    (pc = "done" /\ ret.op = "ready_tx" /\ ret.kind = "ok")
        => IF ret.val = 0
             THEN /\ Len(Writes) = 2
                  /\ Writes[1].reg = "TXNTFSR" /\ Writes[1].val = loc.len + 4
                  /\ Writes[1].out = "ok"
                  /\ Writes[2].reg = "TXQCR" /\ Bit(Writes[2].val, 1) = 1
                  /\ Writes[2].out = "ok"
             ELSE Writes = <<>>

\* ready_tx(2000) with 2003 bytes free returned false.
C8_Witness ==
    /\ pc = "done" /\ ret.op = "ready_tx" /\ ret.kind = "ok" /\ ret.val = 0
    /\ loc.len = 2000 /\ regs["TXNTFSR"] = 2004

(***************************************************************************)
(* C9.  An init that follows a successful init immediately, on a chip that *)
(* passes the identity and self-test checks and a bus that does not fail,  *)
(* returns success and leaves every configuration register with the value  *)
(* it had after the first init.                                            *)
(***************************************************************************)
SecondInit == ret.op = "init" /\ last = [op |-> "init", kind |-> "ok"]

C9_InitIdempotent ==
    /\ (ret.op = "init" /\ chip \in GoodChips /\ ~BusFailed) => (pc = "done" /\ ret.kind = "ok")
    /\ (SecondInit /\ ret.kind = "ok") => (regs = entry.regs)

\* The second init has returned on a chip that keeps its registers over the reset
\* command, so that the second pass worked on the values the first pass left.
C9_Witness ==
    /\ SecondInit /\ pc = "done" /\ ret.kind = "ok" /\ ~chip.reset
    /\ Len(bus) = 6 + 2 * Len(InitPlan)
    /\ regs["IER"] = MaskOf({IER_LCIE, IER_TXSAIE, IER_TXIE, IER_RXIE, IER_RXOIE, IER_SPIBEIE})

(***************************************************************************)
(* C10.  A bus failure during any transaction of init makes init return    *)
(* the transport error at once: the failed transaction is the last one and *)
(* the result is SpiError carrying the bus's error kind.                   *)
(***************************************************************************)
C10_InitReturnsTransportError ==
    (pc \in {"done", "aborted"} /\ ret.op = "init" /\ BusFailed)
        => /\ pc = "done"
           /\ ret.kind = "SpiError"
           /\ ret.spi = bus[Len(bus)].out
           /\ \A k \in 1..(Len(bus) - 1) : bus[k].out = "ok"

(***************************************************************************)
(* C11.  If the family field of CIDER differs from 0x88 or its chip field  *)
(* from 0x7, init returns BadChipId carrying the expected and the actual   *)
(* family and chip values; the CIDER read is its last transaction, it has  *)
(* written no configuration register, and TX and RX are not enabled.       *)
(***************************************************************************)
ConfigWrites == {k \in 1..Len(bus) : bus[k].t = "wr" /\ bus[k].reg # "GRR"}

ProcessingOff == Bit(regs["TXCR"], TXCR_TXE) = 0 /\ Bit(regs["RXCR1"], RXCR1_RXE) = 0

CiderReads == {k \in 1..Len(bus) : bus[k].t = "rd" /\ bus[k].reg = "CIDER" /\ bus[k].out = "ok"}

MismatchRead(k) ==
    (Field(bus[k].val, 8, 8) # 136) \/ (Field(bus[k].val, 4, 4) # 7)

C11_IdentityMismatch ==
    \A k \in CiderReads :
        MismatchRead(k)
            => /\ k = Len(bus)
               /\ pc \in {"init_chk_id", "done"}
               /\ ConfigWrites = {}
               /\ ProcessingOff
               /\ (pc = "done")
                    => /\ ret.op = "init" /\ ret.kind = "BadChipId"
                       /\ ret.info = <<136, Field(bus[k].val, 8, 8), 7, Field(bus[k].val, 4, 4)>>

\* init has returned on a chip of family 0x87 with the right chip type.
C11_Witness ==
    /\ pc = "done" /\ ret.op = "init" /\ ret.kind = "BadChipId"
    /\ ret.info = <<136, 135, 7, 7>>

(***************************************************************************)
(* C12.  If the identity matches and MBIR reports a TX or an RX self-test  *)
(* failure, init returns FailedBuiltInSelfTest whose flags are the RX and  *)
(* TX failure bits read; the MBIR read is its last transaction, no         *)
(* configuration register is written and TX and RX are not enabled.  An    *)
(* identity mismatch wins over a self-test failure.                        *)
(***************************************************************************)
MbirReads == {k \in 1..Len(bus) : bus[k].t = "rd" /\ bus[k].reg = "MBIR" /\ bus[k].out = "ok"}

SelfTestFailedRead(k) == (Bit(bus[k].val, 3) = 1) \/ (Bit(bus[k].val, 11) = 1)

C12_SelfTestFailure ==
    /\ \A k \in MbirReads :
         /\ \E j \in CiderReads : j < k /\ ~MismatchRead(j)
         /\ SelfTestFailedRead(k)
              => /\ k = Len(bus)
                 /\ pc \in {"init_chk_bist", "done"}
                 /\ ConfigWrites = {}
                 /\ ProcessingOff
                 /\ (pc = "done")
                      => /\ ret.op = "init" /\ ret.kind = "FailedBuiltInSelfTest"
                         /\ ret.info = <<Bit(bus[k].val, 3), Bit(bus[k].val, 11)>>
    /\ (pc = "done" /\ ret.op = "init" /\ ~BusFailed
            /\ ((Field(chip.cider, 8, 8) # 136) \/ (Field(chip.cider, 4, 4) # 7)))
         => ret.kind = "BadChipId"

\* init has returned on a chip whose TX memory alone failed its self-test.
C12_Witness ==
    /\ pc = "done" /\ ret.op = "init" /\ ret.kind = "FailedBuiltInSelfTest"
    /\ ret.info = <<0, 1>>

(***************************************************************************)
(* C13.  In a successful init the write that sets the transmit-enable bit  *)
(* comes before the write that sets the receive-enable bit, and both come  *)
(* after every TX/RX configuration write, the interrupt-enable write and   *)
(* the auto-enqueue-disable write; when init returns success TX and RX are *)
(* both enabled.                                                           *)
(***************************************************************************)
InitOk == pc = "done" /\ ret.op = "init" /\ ret.kind = "ok"

\* The registers of the writes that precede the two enabling writes, in order.
ConfigOrder == <<"GRR", "GRR", "TXFDPR", "TXCR", "RXFDPR", "RXFCTR", "RXQCR", "RXCR1", "RXCR2",
                 "IER", "TXQCR">>

C13_EnableLast ==
    InitOk =>
        /\ Len(Writes) = Len(ConfigOrder) + 2
        /\ \A i \in 1..Len(ConfigOrder) : Writes[i].reg = ConfigOrder[i]
        /\ Bit(Writes[11].val, 2) = 0
        /\ Writes[12].reg = "TXCR" /\ Bit(Writes[12].val, 0) = 1
        /\ Writes[13].reg = "RXCR1" /\ Bit(Writes[13].val, 0) = 1
        /\ (chip.reset \/ Bit(entry.regs["TXCR"], 0) = 0)
              => \A i \in 1..11 : (Writes[i].reg = "TXCR") => (Bit(Writes[i].val, 0) = 0)
        /\ (chip.reset \/ Bit(entry.regs["RXCR1"], 0) = 0)
              => \A i \in 1..12 : (Writes[i].reg = "RXCR1") => (Bit(Writes[i].val, 0) = 0)
        /\ Bit(regs["TXCR"], 0) = 1
        /\ Bit(regs["RXCR1"], 0) = 1

\* init has returned success on a chip that implements the soft reset.
C13_Witness ==
    /\ InitOk /\ chip.reset
    /\ Writes[12].reg = "TXCR" /\ Writes[13].reg = "RXCR1"
    /\ regs["TXCR"] = MaskOf({2, 1, 0})

(***************************************************************************)
(* C14.  If the frame-valid bit of the status rx read is unset, rx returns *)
(* RxNoFrameAvailable, also when error flags are set; it has not written   *)
(* RXQCR (no release of an error frame, no streaming access), has issued   *)
(* no streaming read and has left the caller's buffer as it was.           *)
(***************************************************************************)
StatusReads == {k \in 1..Len(bus) : bus[k].t = "rd" /\ bus[k].reg = "RXFHSR" /\ bus[k].out = "ok"}

RxqcrWrites == {k \in 1..Len(bus) : bus[k].t = "wr" /\ bus[k].reg = "RXQCR"}

StreamReads == {k \in 1..Len(bus) : bus[k].t = "rxs"}

BufferUntouched == \A i \in 1..Len(loc.rx_buf) : loc.rx_buf[i] = 238

C14_NoFrameAvailable ==
    \A k \in StatusReads :
        (Bit(bus[k].val, 15) = 0)
            => /\ RxqcrWrites = {}
               /\ StreamReads = {}
               /\ BufferUntouched
               /\ pc \in {"rx_rd_rxfhbcr", "rx_classify", "done", "aborted"}
               /\ (pc = "aborted") => BusFailed
               /\ (pc = "done") => (ret.op = "rx" /\ ret.kind = "RxNoFrameAvailable")

\* rx has returned on a header whose CRC-error flag is set while frame-valid is not.
C14_Witness ==
    /\ pc = "done" /\ ret.op = "rx" /\ ret.kind = "RxNoFrameAvailable"
    /\ \E k \in StatusReads : bus[k].val = 1

(***************************************************************************)
(* C15.  If the status rx read has frame-valid set and any of the eight    *)
(* error flags (CRC, runt, too long, MII, UDP, TCP, IP, ICMP checksum),    *)
(* rx sets the release-error-frame bit of RXQCR and returns RxFrameInvalid *)
(* only after it read that bit back as cleared; it never enables streaming *)
(* access, issues no streaming read and leaves the caller's buffer alone.  *)
(***************************************************************************)
ErrorHeader(v) == (Bit(v, 15) = 1) /\ (\E b \in {0, 1, 2, 4, 10, 11, 12, 13} : Bit(v, b) = 1)

C15_ErrorFrameDiscarded ==
    \A k \in StatusReads :
        ErrorHeader(bus[k].val)
            => /\ StreamReads = {}
               /\ BufferUntouched
               /\ \A w \in RxqcrWrites : Bit(bus[w].val, 3) = 0
               /\ pc \in {"rx_rd_rxfhbcr", "rx_classify", "rx_rd_rxqcr_err", "rx_wr_rrxef",
                          "rx_wait", "done", "aborted"}
               /\ (pc = "aborted") => BusFailed
               /\ (pc = "done")
                    => /\ ret.op = "rx" /\ ret.kind = "RxFrameInvalid"
                       /\ \E w \in RxqcrWrites :
                            /\ bus[w].out = "ok" /\ Bit(bus[w].val, 0) = 1 /\ w < Len(bus)
                       /\ LET e == bus[Len(bus)]
                          IN  e.t = "rd" /\ e.reg = "RXQCR" /\ e.out = "ok" /\ Bit(e.val, 0) = 0

\* rx has returned on a valid frame with a bad ICMP checksum, after a poll that still
\* found the release bit set.
C15_Witness ==
    /\ pc = "done" /\ ret.op = "rx" /\ ret.kind = "RxFrameInvalid"
    /\ \E k \in StatusReads : bus[k].val = MaskOf({15, 13})
    /\ \E j \in 1..Len(bus) : bus[j].t = "rd" /\ bus[j].reg = "RXQCR" /\ Bit(bus[j].val, 0) = 1

(***************************************************************************)
(* C16.  If the byte count rx read for a valid, error-free frame exceeds   *)
(* the capacity of the caller's buffer, rx panics (it returns nothing)     *)
(* before it resets the read pointer or enables streaming access; and no   *)
(* streaming read stores more bytes than the caller's buffer holds.        *)
(***************************************************************************)
ByteCountReads ==
    {k \in 1..Len(bus) : bus[k].t = "rd" /\ bus[k].reg = "RXFHBCR" /\ bus[k].out = "ok"}

CleanHeader(v) == (Bit(v, 15) = 1) /\ ~ErrorHeader(v)

C16_OversizedFrameIsFatal ==
    /\ \A s \in StatusReads : \A k \in ByteCountReads :
         (CleanHeader(bus[s].val) /\ (bus[k].val % 4096) > Len(loc.rx_buf))
            => /\ pc \in {"rx_classify", "aborted"}
               /\ (pc = "aborted") => (ret.op = "rx" /\ ret.kind = "panic")
               /\ \A w \in 1..Len(bus) : bus[w].t = "wr" => bus[w].reg = "IER"
               /\ StreamReads = {}
               /\ BufferUntouched
    /\ \A r \in StreamReads :
         /\ Len(loc.rx_buf) \in {8, 16}
         /\ bus[r].val - (1 + 4 + 2 + 2 + 2 + 4) - ((4 - (loc.byte_count % 4)) % 4)
               <= Len(loc.rx_buf)

\* rx has panicked on a 20-byte frame with no bus failure in the call.
C16_Witness ==
    /\ pc = "aborted" /\ ret.op = "rx" /\ ~BusFailed
    /\ \E k \in ByteCountReads : bus[k].val = 20 /\ k = Len(bus)
    /\ \E s \in StatusReads : CleanHeader(bus[s].val)

(***************************************************************************)
(* C17.  For a valid, error-free frame whose byte count B fits the buffer  *)
(* and whose streamed header agrees with the header read before, rx        *)
(* returns success with exactly B - 4 (the bus not failing); and rx never  *)
(* returns success with anything else.                                     *)
(***************************************************************************)
C17_ReturnsPayloadLength ==
    /\ \A r \in RxStreams :
         (~StreamMismatch(r) /\ ~BusFailed)
            => /\ pc \in {"rx_rd_rxqcr2", "rx_wr_sda0", "rx_wr_ier", "rx_ok", "done"}
               /\ (pc = "done") => (ret.op = "rx" /\ ret.kind = "ok")
    /\ (pc = "done" /\ ret.op = "rx" /\ ret.kind = "ok")
         => \E s \in StatusReads : \E k \in ByteCountReads : \E r \in RxStreams :
              /\ s < k /\ k < r
              /\ CleanHeader(bus[s].val)
              /\ (bus[k].val % 4096) <= Len(loc.rx_buf)
              /\ ~StreamMismatch(r)
              /\ ret.val = (bus[k].val % 4096) - 4

\* rx has returned 6 for a frame of byte count 10.
C17_Witness ==
    /\ pc = "done" /\ ret.op = "rx" /\ ret.kind = "ok" /\ ret.val = 6
    /\ \E k \in ByteCountReads : bus[k].val = 10

(***************************************************************************)
(* C18.  If rx finds the receive-interrupt bit of IER set, it panics: it   *)
(* returns no frame, and the IER read is its only transaction, so no chip  *)
(* register has been written and the mask is as the caller left it.        *)
(***************************************************************************)
IerReads == {k \in 1..Len(bus) : bus[k].t = "rd" /\ bus[k].reg = "IER" /\ bus[k].out = "ok"}

C18_RxInterruptMustBeOff ==
    \A k \in IerReads :
        (Bit(bus[k].val, 13) = 1)
            => /\ Len(bus) = 1
               /\ pc \in {"rx_assert", "aborted"}
               /\ (pc = "aborted") => (ret.op = "rx" /\ ret.kind = "panic")
               /\ regs["IER"] = entry.regs["IER"]
               /\ BufferUntouched

\* rx has panicked on a mask with the receive interrupt enabled.
C18_Witness ==
    /\ pc = "aborted" /\ ret.op = "rx" /\ Len(bus) = 1
    /\ Bit(regs["IER"], 13) = 1

(***************************************************************************)
(* C19.  For every 6-byte address m, all zeros and all ones included,      *)
(* a get_mac that succeeds after a successful set_mac(m), with no write to *)
(* a MAC register in between, returns exactly m, byte order preserved.     *)
(***************************************************************************)
C19_MacRoundTrip ==
    (pc = "done" /\ ret.op = "get_mac" /\ ret.kind = "ok" /\ mac # <<>>)
        => /\ ret.info = mac
           /\ Len(ret.info) = 6

\* get_mac has returned 01:23:45:67:89:AB, the address set before.
C19_Witness ==
    /\ pc = "done" /\ ret.op = "get_mac" /\ ret.kind = "ok"
    /\ mac = <<1, 35, 69, 103, 137, 171>>
    /\ ret.info = <<1, 35, 69, 103, 137, 171>>

(***************************************************************************)
(* C20.  For every opcode and every address accessed with a width of two   *)
(* bytes, bits 5..2 of the first header byte are 0011 when the address is  *)
(* 0 mod 4 and 1100 when it is 2 mod 4; any other alignment and any other  *)
(* width gives no header: the call is a fault.                             *)
(***************************************************************************)
C20_ByteEnable ==
    (ret.op = "reg_cmd")
        => IF (loc.len = 2) /\ (loc.tmp % 2 = 0)
             THEN /\ pc = "done"
                  /\ Len(ret.info) = 2
                  /\ (ret.info[1] \div 4) % 16 = (IF loc.tmp % 4 = 0 THEN 3 ELSE 12)
             ELSE /\ pc = "aborted"
                  /\ ret.kind = "panic"
                  /\ ret.info = <<>>

\* A register write to address 0x12 (2 mod 4): first header byte 01 1100 00.
C20_Witness ==
    /\ pc = "done" /\ ret.op = "reg_cmd"
    /\ loc.i = 1 /\ loc.tmp = 18 /\ loc.len = 2
    /\ ret.info[1] = 112

(***************************************************************************)
(* C21.  Every bus failure during ready_tx or tx (and likewise rx), on a   *)
(* register access or on the streaming transaction, ends the call with     *)
(* SpiError carrying the transport's error kind; no bus failure ends the   *)
(* call as a panic.                                                        *)
(***************************************************************************)
C21_BusFailureIsReturned ==
    (pc \in {"done", "aborted"} /\ ret.op \in {"ready_tx", "tx", "rx"} /\ BusFailed)
        => /\ pc = "done"
           /\ ret.kind = "SpiError"
           /\ ret.spi = bus[Len(bus)].out

(***************************************************************************)
(* C22.  Through Ksz8851snlInterface, a 16-bit write to a 2-byte-aligned   *)
(* address is no fault and issues exactly one transaction, the 2-byte      *)
(* write header followed by the data; a 16-bit read likewise issues one    *)
(* transaction of header and data read; only a width other than 16 bits    *)
(* is a precondition fault.                                                *)
(***************************************************************************)
C22_SixteenBitAccess ==
    (ret.op \in {"dev_read_register", "dev_write_register"})
        => IF loc.len = 16
             THEN (loc.tmp % 2 = 0)
                    => /\ pc = "done"
                       /\ Len(bus) = 1
                       /\ Len(bus[1].data) = 2
                       /\ bus[1].t = (IF ret.op = "dev_read_register" THEN "rd" ELSE "wr")
                       /\ bus[1].data[1] \div 64 = (IF ret.op = "dev_read_register" THEN 0 ELSE 1)
             ELSE pc = "aborted" /\ bus = <<>>

(***************************************************************************)
(* C23.  With a bus that does not fail and a chip that eventually clears   *)
(* the release-error-frame bit, every rx call eventually returns or        *)
(* panics; while rx waits, no poll it has made read the bit as clear (the  *)
(* loop ends at the first such read), and no other step of rx waits.       *)
(***************************************************************************)
RxRunning == pc \notin {"idle", "done", "aborted"}

ReleaseWrites ==
    {k \in 1..Len(bus) : bus[k].t = "wr" /\ bus[k].reg = "RXQCR" /\ Bit(bus[k].val, 0) = 1}

C23_RxTerminates ==
    /\ [](pc = "rx_wait"
            => \A w \in ReleaseWrites : \A k \in (w + 1)..Len(bus) : Bit(bus[k].val, 0) = 1)
    /\ (RxRunning ~> (pc \in {"done", "aborted"}))

\* rx is in its wait loop, a poll has read the bit as set, and the chip has not yet
\* released the frame.
C23_Witness ==
    /\ pc = "rx_wait"
    /\ Bit(regs["RXQCR"], 0) = 1
    /\ \E w \in ReleaseWrites : w < Len(bus) /\ Bit(bus[Len(bus)].val, 0) = 1

(***************************************************************************)
(* C24.  In a tx call whose bus never fails the bus events are, in this    *)
(* order: read IER, write IER = 0, set streaming access (read and write    *)
(* RXQCR), one streaming write, clear streaming access (read and write     *)
(* RXQCR), set the manual-enqueue bit (read and write TXQCR), write the    *)
(* saved IER value back.  The manual-enqueue bit is set once per tx, after *)
(* streaming access was cleared.                                           *)
(***************************************************************************)
TxOrder ==
    << <<"rd", "IER">>, <<"wr", "IER">>, <<"rd", "RXQCR">>, <<"wr", "RXQCR">>, <<"txs", "">>,
       <<"rd", "RXQCR">>, <<"wr", "RXQCR">>, <<"rd", "TXQCR">>, <<"wr", "TXQCR">>,
       <<"wr", "IER">> >>

InTx ==
    \/ pc \in {"tx_rd_ier", "tx_wr_ier0", "tx_rd_rxqcr", "tx_wr_sda1", "tx_stream",
               "tx_rd_rxqcr2", "tx_wr_sda0", "tx_rd_txqcr", "tx_wr_metfe", "tx_wr_ier", "tx_ok"}
    \/ (pc \in {"done", "aborted"} /\ ret.op = "tx")

C24_TxOrder ==
    (InTx /\ ~BusFailed)
        => /\ Len(bus) <= Len(TxOrder)
           /\ \A k \in 1..Len(bus) : <<bus[k].t, bus[k].reg>> = TxOrder[k]
           /\ pc # "aborted"
           /\ (pc = "done")
                => /\ Len(bus) = Len(TxOrder)
                   /\ bus[2].val = 0
                   /\ Bit(bus[4].val, 3) = 1
                   /\ Bit(bus[7].val, 3) = 0
                   /\ Bit(bus[9].val, 0) = 1
                   /\ bus[10].val = bus[1].val
                   /\ {k \in 1..Len(bus) : bus[k].t = "wr" /\ bus[k].reg = "TXQCR"} = {9}

\* tx has returned success with a mask other than zero restored.
C24_Witness ==
    /\ pc = "done" /\ ret.op = "tx" /\ ret.kind = "ok"
    /\ Len(bus) = 10 /\ bus[10].val # 0 /\ Len(loc.buf) = 3

(***************************************************************************)
(* C25.  In a successful rx the bus events are, in this order: read IER,   *)
(* write IER = 0, read RXFHSR, read RXFHBCR, reset the RX read pointer to  *)
(* 0 (read and write RXFDPR), enable streaming access (read and write      *)
(* RXQCR), one streaming read, disable streaming access (read and write    *)
(* RXQCR), write the saved IER value back.                                 *)
(***************************************************************************)
RxOrder ==
    << <<"rd", "IER">>, <<"wr", "IER">>, <<"rd", "RXFHSR">>, <<"rd", "RXFHBCR">>,
       <<"rd", "RXFDPR">>, <<"wr", "RXFDPR">>, <<"rd", "RXQCR">>, <<"wr", "RXQCR">>,
       <<"rxs", "">>, <<"rd", "RXQCR">>, <<"wr", "RXQCR">>, <<"wr", "IER">> >>

C25_RxOrder ==
    (pc = "done" /\ ret.op = "rx" /\ ret.kind = "ok")
        => /\ Len(bus) = Len(RxOrder)
           /\ \A k \in 1..Len(bus) :
                <<bus[k].t, bus[k].reg>> = RxOrder[k] /\ bus[k].out = "ok"
           /\ bus[2].val = 0
           /\ bus[6].val % 2048 = 0
           /\ Bit(bus[8].val, 3) = 1
           /\ Bit(bus[11].val, 3) = 0
           /\ bus[12].val = bus[1].val

\* rx has returned a frame with a mask other than zero restored.
C25_Witness ==
    /\ pc = "done" /\ ret.op = "rx" /\ ret.kind = "ok"
    /\ Len(bus) = 12 /\ bus[12].val # 0 /\ bus[9].t = "rxs"

(***************************************************************************)
(* C26.  While the running tx or rx has streaming access enabled (its last *)
(* RXQCR write set the bit), the interrupt-enable register is 0; and a     *)
(* streaming transaction is issued only then, right after that write.      *)
(***************************************************************************)
SdaWrites == {k \in 1..Len(bus) : bus[k].t = "wr" /\ bus[k].reg = "RXQCR" /\ bus[k].out = "ok"}

SdaEnabledByCall ==
    \E k \in SdaWrites : Bit(bus[k].val, 3) = 1 /\ \A j \in SdaWrites : j <= k

C26_StreamingInsideCriticalSection ==
    /\ SdaEnabledByCall => (regs["IER"] = 0 /\ Bit(regs["RXQCR"], 3) = 1)
    /\ (pc \in {"tx_stream", "rx_stream"}) => SdaEnabledByCall
    /\ \A k \in 1..Len(bus) :
         (bus[k].t \in {"txs", "rxs"})
            => /\ k > 1
               /\ (k - 1) \in SdaWrites
               /\ Bit(bus[k - 1].val, 3) = 1

\* tx has streamed a frame out and has not yet cleared streaming access; the mask it
\* found at entry was not zero.
C26_Witness ==
    /\ pc = "tx_rd_rxqcr2" /\ SdaEnabledByCall
    /\ entry.regs["IER"] # 0 /\ regs["IER"] = 0
    /\ \E k \in 1..Len(bus) : bus[k].t = "txs" /\ bus[k].out = "ok"

(***************************************************************************)
(* C27.  When the streaming transaction of tx fails, tx returns the        *)
(* transport error of that transaction, the frame id is what it was before *)
(* the call, and TXQCR is not written: the frame is not enqueued.          *)
(***************************************************************************)
FailedTxStreams == {k \in 1..Len(bus) : bus[k].t = "txs" /\ bus[k].out # "ok"}

C27_FailedStreamNotEnqueued ==
    \A k \in FailedTxStreams :
        /\ pc = "done"
        /\ ret.op = "tx" /\ ret.kind = "SpiError" /\ ret.spi = bus[k].out
        /\ next_frame_id = entry.next_frame_id
        /\ \A j \in 1..Len(bus) : ~(bus[j].t = "wr" /\ bus[j].reg = "TXQCR")
        /\ regs["TXQCR"] = entry.regs["TXQCR"]

\* A failed stream in a tx that started with a frame id other than 0.
C27_Witness ==
    /\ FailedTxStreams # {}
    /\ pc = "done" /\ ret.kind = "SpiError"
    /\ entry.next_frame_id > 0

(***************************************************************************)
(* C28.  When the streaming transaction of tx fails, it is the last bus    *)
(* transaction of the call: tx returns with start_dma_access still set in  *)
(* RXQCR and IER still 0, whatever the mask was at entry.                  *)
(***************************************************************************)
C28_FailedStreamLeavesChipMidway ==
    \A k \in FailedTxStreams :
        /\ k = Len(bus)
        /\ pc = "done"
        /\ Bit(regs["RXQCR"], 3) = 1
        /\ regs["IER"] = 0

\* A failed stream in a tx that found interrupt sources enabled.
C28_Witness ==
    /\ FailedTxStreams # {}
    /\ pc = "done"
    /\ entry.regs["IER"] # 0 /\ regs["IER"] = 0
    /\ Bit(entry.regs["RXQCR"], 3) = 0 /\ Bit(regs["RXQCR"], 3) = 1

(***************************************************************************)
(* C29.  init starts with a write to GRR that sets global_soft_reset, then *)
(* a delay of 10 ms, then a write of 0 to GRR, then a second delay of      *)
(* 10 ms; the read of CIDER comes fifth, and no register other than GRR is *)
(* accessed before it.                                                     *)
(***************************************************************************)
ResetPulse(k) ==
    CASE k = 1 -> bus[k].t = "wr" /\ bus[k].reg = "GRR" /\ Bit(bus[k].val, 0) = 1
      [] k = 2 -> bus[k].t = "delay" /\ bus[k].val = 10
      [] k = 3 -> bus[k].t = "wr" /\ bus[k].reg = "GRR" /\ bus[k].val = 0
      [] k = 4 -> bus[k].t = "delay" /\ bus[k].val = 10
      [] k = 5 -> bus[k].t = "rd" /\ bus[k].reg = "CIDER"
      [] OTHER -> TRUE

C29_ResetPulseFirst ==
    \A k \in 1..Len(bus) :
        /\ ResetPulse(k)
        /\ (bus[k].t \in {"rd", "wr"} /\ bus[k].reg # "GRR") => k >= 5
        /\ (k > 1) => bus[k - 1].out = "ok"

\* init has released the reset, waited, and read the identity register.
C29_Witness ==
    /\ pc = "init_chk_id"
    /\ Len(bus) = 5
    /\ bus[5].reg = "CIDER" /\ bus[5].out = "ok"
    /\ bus[4].t = "delay"

(***************************************************************************)
(* C30.  After an init that returned Ok, the RX checksum checks for UDP,   *)
(* TCP and IP (RXCR1) and for ICMP and UDP-lite (RXCR2) are off, fragment  *)
(* pass and checksum-equal-zero pass are on, and the SPI receive burst     *)
(* length is single frame.                                                 *)
(***************************************************************************)
Rxcr2Written == Writes[9].val

C30_RxChecksumChecksOff ==
    InitOk =>
        /\ Writes[9].reg = "RXCR2"
        /\ Bit(regs["RXCR1"], 14) = 0 /\ Bit(regs["RXCR1"], 13) = 0 /\ Bit(regs["RXCR1"], 12) = 0
        /\ Bit(Rxcr2Written, 1) = 0
        /\ Bit(Rxcr2Written, 2) = 0
        /\ Bit(Rxcr2Written, 4) = 1
        /\ Bit(Rxcr2Written, 3) = 1
        /\ Field(Rxcr2Written, 5, 3) = 4

(***************************************************************************)
(* C31.  After an init that returned Ok on a chip whose reset clears IER,  *)
(* the enabled interrupt sources are exactly link change (15), transmit    *)
(* (14), receive (13), receive overrun (11), transmit space available (6)  *)
(* and SPI bus error (1), whatever mask the host had programmed before.    *)
(***************************************************************************)
C31_InterruptSourcesAfterInit ==
    (InitOk /\ chip.reset)
        => \A b \in 0..15 : (Bit(regs["IER"], b) = 1) <=> (b \in {15, 14, 13, 11, 6, 1})

\* init returned Ok on a resetting chip whose mask had other sources enabled at entry.
C31_Witness ==
    /\ InitOk /\ chip.reset
    /\ Bit(entry.regs["IER"], 8) = 1
    /\ Bit(regs["IER"], 8) = 0

(***************************************************************************)
(* C32.  Once init has succeeded, the auto-enqueue bit of TXQCR (bit 2) is *)
(* 0 and stays 0 through ready_tx, tx, rx and the accessors; no operation  *)
(* of the driver, init included, writes TXQCR with that bit set.           *)
(***************************************************************************)
C32_AutoEnqueueOff ==
    /\ \A k \in 1..Len(bus) :
         (bus[k].t = "wr" /\ bus[k].reg = "TXQCR") => Bit(bus[k].val, 2) = 0
    /\ Initialised => Bit(regs["TXQCR"], 2) = 0

\* After init and a tx, a ready_tx has found no room and written TXQCR.
C32_Witness ==
    /\ Initialised
    /\ pc = "done" /\ ret.op = "ready_tx" /\ ret.kind = "ok" /\ ret.val = 0
    /\ last.op = "tx" /\ last.kind = "ok"
    /\ \E k \in 1..Len(bus) : bus[k].t = "wr" /\ bus[k].reg = "TXQCR" /\ bus[k].out = "ok"

(***************************************************************************)
(* C33.  For every opcode o and every 2-byte-aligned address a, reg_cmd    *)
(* returns two bytes: the first has o in bits 7..6, the byte-enable mask   *)
(* (0011 or 1100, by bit 1 of a) in bits 5..2 and bits 7..6 of a in bits   *)
(* 1..0; the second has bits 5..2 of a in bits 7..4 and 0 in bits 3..0.    *)
(* RegRead is opcode 0 and RegWrite opcode 1.  No other aligned address    *)
(* gives the same header.                                                  *)
(***************************************************************************)
AlignedAddrs == {a \in 0..255 : a % 2 = 0}

C33_HeaderLayout ==
    (ret.op = "reg_cmd" /\ loc.tmp \in AlignedAddrs /\ loc.len = 2)
        => /\ pc = "done"
           /\ Len(ret.info) = 2
           /\ ret.info[1] \div 64 = loc.i
           /\ (ret.info[1] \div 4) % 16 = (IF (loc.tmp \div 2) % 2 = 0 THEN 3 ELSE 12)
           /\ ret.info[1] % 4 = loc.tmp \div 64
           /\ ret.info[2] \div 16 = (loc.tmp \div 4) % 16
           /\ ret.info[2] % 16 = 0
           /\ OpRegRead = 0 /\ OpRegWrite = 1
           /\ \A b \in AlignedAddrs : (b # loc.tmp) => (reg_cmd(loc.i, b, 2) # ret.info)

\* The header of a register write to IER (0x90), an address with bits in both bytes.
C33_Witness ==
    /\ pc = "done" /\ ret.op = "reg_cmd"
    /\ loc.i = OpRegWrite /\ loc.tmp = 144 /\ loc.len = 2
    /\ ret.info = <<78, 64>>

(***************************************************************************)
(* C34.  When rx returns Ok(n), the first n positions of the caller's      *)
(* buffer hold bytes of the frame: rx stored as many bytes as it reports.  *)
(***************************************************************************)
C34_ReturnedLengthIsStored ==
    (pc = "done" /\ ret.op = "rx" /\ ret.kind = "ok")
        => \A i \in 1..ret.val :
              /\ i <= Len(loc.rx_buf)
              /\ loc.rx_buf[i] = FrameByte(regs["RXFHSR"], regs["RXFHBCR"], i)

(***************************************************************************)
(* C35.  For a valid, error-free header whose byte count B fits the        *)
(* buffer, rx reaches its streaming read with B - 6 >= 0 and B - 4 >= 0:   *)
(* neither subtraction goes below zero, also when B < 6.                   *)
(***************************************************************************)
C35_LengthsDoNotUnderflow ==
    (pc = "rx_stream")
        => /\ loc.byte_count - 4 - 2 >= 0
           /\ loc.byte_count - 4 >= 0

(***************************************************************************)
(* C36.  A ready_tx that returns false leaves TXQCR with the monitor bit   *)
(* set and with the manual-enqueue bit (0) and the auto-enqueue bit (2) as *)
(* they were when the call began.                                          *)
(***************************************************************************)
C36_ReadyTxKeepsEnqueueBits ==
    (pc = "done" /\ ret.op = "ready_tx" /\ ret.kind = "ok" /\ ret.val = 0)
        => /\ Bit(regs["TXQCR"], 1) = 1
           /\ Bit(regs["TXQCR"], 0) = Bit(entry.regs["TXQCR"], 0)
           /\ Bit(regs["TXQCR"], 2) = Bit(entry.regs["TXQCR"], 2)

(***************************************************************************)
(* C37.  next_frame_id changes only in the step of tx in which the stream  *)
(* succeeds, where it advances by one modulo 32; no step of init,          *)
(* ready_tx, rx, rx_frames_available, set_mac, get_mac, link_good or       *)
(* set_leds changes it, so an init after a tx leaves the ids where they    *)
(* were.                                                                   *)
(***************************************************************************)
C37_FrameIdOnlyInTx ==
    [][(next_frame_id' # next_frame_id)
          => /\ pc = "tx_stream"
             /\ pc' = "tx_rd_rxqcr2"
             /\ bus'[Len(bus')].t = "txs" /\ bus'[Len(bus')].out = "ok"
             /\ next_frame_id' = (next_frame_id + 1) % 32]_vars

\* A second init has returned Ok after a tx that advanced the frame id.
C37_Witness ==
    /\ InitOk
    /\ next_frame_id = 1
    /\ last.op = "tx"

ApiKeepsReceiveInterrupt ==
    /\ InitOk => Bit(regs["IER"], 13) = 1
    /\ (pc = "done" /\ ret.op # "init" /\ ~BusFailed /\ Bit(entry.regs["IER"], 13) = 1)
          => Bit(regs["IER"], 13) = 1
    /\ (pc = "done" /\ ret.op = "rx" /\ Bit(entry.regs["IER"], 13) = 1)
          => ret.kind = "SpiError"

(***************************************************************************)
(* C39.  Once init has succeeded, no step of ready_tx, tx or rx (nor of an *)
(* accessor) changes what init configured: in RXQCR only start_dma_access  *)
(* (bit 3) and release_rx_error_frame (bit 0) change, so the threshold     *)
(* enable, IP header offset and auto-dequeue bits stay; the write that     *)
(* resets the RX frame pointer keeps the auto-increment bit of RXFDPR; and *)
(* TXCR, RXCR1 and RXCR2 are never written.  (IER, which tx and rx save    *)
(* and write back, is the subject of C3 and C4.)                           *)
(***************************************************************************)
InitPcs == {"init_reset", "init_delay1", "init_release", "init_delay2", "init_rd_cider",
            "init_chk_id", "init_rd_mbir", "init_chk_bist", "init_cfg_rd", "init_cfg_wr",
            "init_ok"}

RxqcrConfig(v) == WithBit(WithBit(v, 3, FALSE), 0, FALSE)

C39_ConfigurationSurvives ==
    [][(Initialised /\ pc \notin InitPcs)
          => /\ \A r \in {"TXCR", "RXCR1", "RXCR2", "RXFCTR", "TXFDPR"} : regs'[r] = regs[r]
             /\ RxqcrConfig(regs'["RXQCR"]) = RxqcrConfig(regs["RXQCR"])
             /\ Bit(regs'["RXFDPR"], 14) = Bit(regs["RXFDPR"], 14)
             /\ Bit(regs'["TXQCR"], 2) = Bit(regs["TXQCR"], 2)
             /\ (Len(bus') > Len(bus) /\ bus'[Len(bus')].t = "wr")
                   => bus'[Len(bus')].reg \notin {"TXCR", "RXCR1", "RXCR2"}]_vars

\* After init and a tx, an rx has returned a frame: the pointer was reset and streaming
\* access switched on and off, and the configuration bits are those init wrote.
C39_Witness ==
    /\ Initialised
    /\ pc = "done" /\ ret.op = "rx" /\ ret.kind = "ok"
    /\ last.op = "tx" /\ last.kind = "ok"
    /\ \E k \in 1..Len(bus) : bus[k].t = "wr" /\ bus[k].reg = "RXFDPR" /\ Bit(bus[k].val, 14) = 1
    /\ Bit(regs["RXQCR"], 4) = 1 /\ Bit(regs["RXQCR"], 5) = 1 /\ Bit(regs["RXQCR"], 9) = 1
====
